---- MODULE Spec2Model ----
(***************************************************************************)
(* A model of the openterface display-and-input engine:                    *)
(*   - the protocol-event thread: keep-alive ping and the pointer and      *)
(*     keyboard callbacks that forward input to the serial HID chip        *)
(*     (gui.cpp, gui_wayland.cpp, gui_input.cpp, serial.cpp, input.cpp);   *)
(*   - the single-slot video frame store and VideoProcessor::processFrame  *)
(*     (gui.cpp, gui_video.cpp, jpeg_decoder.cpp);                         *)
(*   - the window and its shared-memory surface buffer, with the resize    *)
(*     proposals of the server (gui.cpp, gui_wayland.cpp).                 *)
(* Each part has its own specification over the one set of variables.     *)
(***************************************************************************)
EXTENDS Integers, Sequences, FiniteSets, TLC

(***************************************************************************)
(* Bounds of the model.                                                    *)
(***************************************************************************)
MaxSerial == 2

(***************************************************************************)
(* Program constants.                                                      *)
(***************************************************************************)
RESIZE_BORDER == 10
BTN_LEFT == 272
BTN_RIGHT == 273
BTN_MIDDLE == 274
CH9329_MAX == 4095
DefaultWidth == 1920
DefaultHeight == 1080

VARIABLES
    \* WaylandCallbackData, the state the protocol callbacks share
    mouse_over, input_active, is_resizing, resize_edge,
    last_mouse_x, last_mouse_y, current_modifiers,
    xdg_toplevel_set, targets_set,
    \* Input / Serial collaborators
    forwarding_enabled, connected,
    \* the protocol-event thread
    listener, proto_pc, ping_serial, todo, proto_trace,
    \* the serial send the running callback made, and the bytes it is writing
    serial_call, wire,
    \* the window (GUIInfo) and the pending-resize flag of GUI::Impl
    window_width, window_height, needs_resize,
    \* the frame slot of GUI::Impl and its lock; the capture thread inside
    \* onVideoFrame and the window thread inside the fill block of createBuffer
    current_frame, frame_width, frame_height, has_new_frame, frame_mutex,
    writer_pc, writer_frame, reader_pc, reader_view, last_valid,
    \* GUI::Impl: life cycle flags, which shell the server offers, the surface,
    \* and the three handles of the surface buffer
    initialized, window_created, shell_kind, surface_set, buffer, shm_data, shm_fd,
    \* what the kernel and the server hold: live mappings and open descriptors
    \* with their sizes, live server buffers; buffers made and destroyed so far;
    \* the last munmap call
    live_maps, live_fds, live_bufs, n_created, n_destroyed, last_unmap,
    \* the resize proposals: milliseconds since last_update (saturating), the
    \* last proposal with what it met (NoProposal once something else ran)
    time_since_last, cfg,
    \* two threads at the buffer: the caller of the GUI interface and the
    \* thread inside runEventLoop; the resize/destroy mutex; the buffer the
    \* event loop saw when it decided to commit
    api_pc, loop_pc, resize_mutex, loop_buf,
    \* VideoProcessor::processFrame: the caller's VideoFrame, the error string,
    \* the argument and result of the call, where the call stands, and the
    \* VideoFrame as the caller passed it in
    output, last_error, pf_frame, pf_ret, pf_pc, pf_prev,
    \* the globals the server advertises; the connection and the globals
    \* GUI::Impl holds (non-null or null); the last call of the GUI interface
    \* with what it returned
    globals, bound, gui_ret,
    \* a call of normalizeMouseCoordinates: its arguments and what it returned
    norm_args, norm_ret,
    \* a call of renderVideoToBuffer: its arguments, the destination pixels,
    \* where the call stands, the row it is at, and whether it read the frame
    \* data outside its length
    rv_args, rv_pixels, rv_pc, rv_y, rv_oob,
    \* GPUVideoRenderer: its fields, the thread each context is current on, what has succeeded, the last call
    gpu, current_on, gpu_hist, gpu_ret,
    \* ThreadManager: the running flags, the std::thread handles, the threads alive, the owner's position
    tm_running, tm_thread, tm_done, tm_started, tm_live, tm_pc, tm_last, tm_joins, tm_destroyed,
    \* GUI::runEventLoop: its position, GUI::Impl::exit_requested, why it left the loop, iterations begun
    el_pc, exit_requested, el_cause, el_iters,
    \* the last wl_keyboard key event delivered: its scancode, and a bit that flips with every event
    key_event,
    \* the last pointer event delivered (kind, two arguments, a bit that flips with every event) and what the target still holds pressed
    last_event, held,
    \* the keys held on the local keyboard and on the target, among the forwarded ones
    keys_down,
    \* the worker functions: where each is, what notify_all did to it
    wk_pc, wk_signal,
    \* Serial::connectAsync: where the connection thread is, Serial::Impl::fd
    cn_pc, cn_fd,
    \* GUI::Impl::info.video_displayed; the capture thread runs with the GUI's frame callback
    video_displayed, capturing,
    \* the compositor: the last valid size it proposed, and how many proposals it sent
    srv_last, srv_sent

inputVars == <<mouse_over, input_active, is_resizing, resize_edge,
               last_mouse_x, last_mouse_y, current_modifiers,
               xdg_toplevel_set, targets_set>>
serialVars == <<forwarding_enabled, connected>>
threadVars == <<listener, proto_pc, ping_serial, todo, proto_trace>>
callVars == <<serial_call, wire>>
protoVars == <<inputVars, serialVars, threadVars, callVars>>
winVars == <<window_width, window_height, needs_resize>>
decodeVars == <<output, last_error, pf_frame, pf_ret, pf_pc, pf_prev>>
slotVars == <<current_frame, frame_width, frame_height, has_new_frame>>
frameVars == <<slotVars, frame_mutex, writer_pc, writer_frame, reader_pc, reader_view,
               last_valid>>
handleVars == <<buffer, shm_data, shm_fd, live_maps, live_fds, live_bufs,
                n_created, n_destroyed, last_unmap>>
bufVars == <<initialized, window_created, shell_kind, surface_set, handleVars,
             time_since_last, cfg>>
globalVars == <<globals, bound, gui_ret>>
normVars == <<norm_args, norm_ret>>
renderVars == <<rv_args, rv_pixels, rv_pc, rv_y, rv_oob>>
gpuVars == <<gpu, current_on, gpu_hist, gpu_ret>>
tmVars == <<tm_running, tm_thread, tm_done, tm_started, tm_live, tm_pc, tm_last, tm_joins, tm_destroyed>>
elVars == <<el_pc, exit_requested, el_cause, el_iters>>
keyVars == <<key_event>>
evVars == <<last_event, held, keys_down>>
wkVars == <<wk_pc, wk_signal>>
cnVars == <<cn_pc, cn_fd>>
dispVars == <<video_displayed, capturing>>
extQuiet == <<globalVars, normVars, renderVars, gpuVars, tmVars, elVars, keyVars, evVars, wkVars, cnVars>>
srvVars == <<srv_last, srv_sent>>
extRest == <<extQuiet, dispVars>>
extVars == <<extRest, srvVars>>
raceVars == <<api_pc, loop_pc, resize_mutex, loop_buf>>
nonProtoVars == <<winVars, decodeVars, frameVars, bufVars, raceVars, extVars>>
nonDecodeVars == <<protoVars, winVars, frameVars, bufVars, raceVars, extVars>>
nonFrameVars == <<protoVars, decodeVars, window_width, window_height, bufVars, raceVars, extVars>>

\* everything outside the callbacks' state except the event history
quietVars == <<winVars, decodeVars, frameVars, bufVars, raceVars, globalVars, normVars,
               renderVars, gpuVars, tmVars, elVars, wkVars, cnVars, dispVars, srvVars>>

vars == <<protoVars, winVars, decodeVars, frameVars, bufVars, raceVars, extVars>>

(***************************************************************************)
(* Small helpers.                                                          *)
(***************************************************************************)
Min(a, b) == IF a < b THEN a ELSE b
Max(a, b) == IF a > b THEN a ELSE b
\* bit test: (n & mask) != 0 for a one-bit mask
HasBit(n, mask) == (n \div mask) % 2 = 1
RECURSIVE SumSeq(_)
SumSeq(s) == IF s = <<>> THEN 0 ELSE Head(s) + SumSeq(Tail(s))

(***************************************************************************)
(* gui_input.cpp: the scancode table and the pure helpers.                 *)
(***************************************************************************)
linux_to_hid_keymap_pairs == {
    <<1, 41>>, <<2, 30>>, <<3, 31>>, <<4, 32>>, <<5, 33>>, <<6, 34>>, <<7, 35>>,
    <<8, 36>>, <<9, 37>>, <<10, 38>>, <<11, 39>>, <<12, 45>>, <<13, 46>>, <<14, 42>>,
    <<15, 43>>, <<16, 20>>, <<17, 26>>, <<18, 8>>, <<19, 21>>, <<20, 23>>, <<21, 28>>,
    <<22, 24>>, <<23, 12>>, <<24, 18>>, <<25, 19>>, <<26, 47>>, <<27, 48>>, <<28, 40>>,
    <<29, 224>>, <<30, 4>>, <<31, 22>>, <<32, 7>>, <<33, 9>>, <<34, 10>>, <<35, 11>>,
    <<36, 13>>, <<37, 14>>, <<38, 15>>, <<39, 51>>, <<40, 52>>, <<41, 53>>, <<42, 225>>,
    <<43, 50>>, <<44, 29>>, <<45, 27>>, <<46, 6>>, <<47, 25>>, <<48, 5>>, <<49, 17>>,
    <<50, 16>>, <<51, 54>>, <<52, 55>>, <<53, 56>>, <<54, 229>>, <<55, 85>>, <<56, 226>>,
    <<57, 44>>, <<58, 57>>, <<59, 58>>, <<60, 59>>, <<61, 60>>, <<62, 61>>, <<63, 62>>,
    <<64, 63>>, <<65, 64>>, <<66, 65>>, <<67, 66>>, <<68, 67>>, <<69, 83>>, <<70, 71>>,
    <<71, 95>>, <<72, 96>>, <<73, 97>>, <<74, 86>>, <<75, 92>>, <<76, 93>>, <<77, 94>>,
    <<78, 87>>, <<79, 89>>, <<80, 90>>, <<81, 91>>, <<82, 98>>, <<83, 99>>, <<87, 68>>,
    <<88, 69>>, <<96, 88>>, <<97, 228>>, <<98, 84>>, <<99, 70>>, <<100, 230>>,
    <<102, 74>>, <<103, 82>>, <<104, 75>>, <<105, 80>>, <<106, 79>>, <<107, 77>>,
    <<108, 81>>, <<109, 78>>, <<110, 73>>, <<111, 76>>, <<119, 72>>, <<125, 227>>,
    <<126, 231>>, <<127, 101>> }

\* 0 for a scancode with no entry
linux_keycode_to_hid(key) ==
    IF \E p \in linux_to_hid_keymap_pairs : p[1] = key
    THEN (CHOOSE p \in linux_to_hid_keymap_pairs : p[1] = key)[2]
    ELSE 0

isMouseOverVideo(mouse_x, mouse_y, ww, wh, video_width, video_height) ==
    IF video_width <= 0 \/ video_height <= 0 THEN TRUE
    ELSE mouse_x >= 0 /\ mouse_x < ww /\ mouse_y >= 0 /\ mouse_y < wh

\* one axis of normalizeMouseCoordinates: clamp to the window, scale to 0..4095,
\* truncate, clamp.  Called with a window of at least two pixels on the axis.
NormalizeAxis(pos, extent) ==
    LET clamped == Max(0, Min(pos, extent - 1))
        scaled == (clamped * CH9329_MAX) \div (extent - 1)
    IN Max(0, Min(scaled, CH9329_MAX))

\* what static_cast<int> may give for the NaN of 0.0 / 0: the smallest int
\* (x86), 0 (ARM), or any other int
NanAsInt == {-2147483647, 0, 2047, 2147483647}

\* one axis for any positive extent.  With extent 1 the quotient is 0.0 / 0,
\* its conversion to int is undefined, and the final clamp follows.  For
\* extents 2..2200 the double arithmetic of the source gives the truncated
\* integer quotient.
NormalizeAxisOutcomes(pos, extent) ==
    IF extent = 1
    THEN {Max(0, Min(v, CH9329_MAX)) : v \in NanAsInt}
    ELSE {NormalizeAxis(pos, extent)}

normalizeMouseCoordinates(x, y, ww, wh, video_width, video_height) ==
    <<NormalizeAxis(x, ww), NormalizeAxis(y, wh)>>

get_resize_edge(x, y, width, height, border_size) ==
      (IF x < border_size THEN 1 ELSE 0)
    + (IF x > width - border_size THEN 2 ELSE 0)
    + (IF y < border_size THEN 4 ELSE 0)
    + (IF y > height - border_size THEN 8 ELSE 0)

\* XDG_TOPLEVEL_RESIZE_EDGE_*: NONE 0, TOP 1, BOTTOM 2, LEFT 4, TOP_LEFT 5,
\* BOTTOM_LEFT 6, RIGHT 8, TOP_RIGHT 9, BOTTOM_RIGHT 10
edge_to_xdg_edge(edge) ==
    CASE edge = 1 -> 4
      [] edge = 2 -> 8
      [] edge = 4 -> 1
      [] edge = 8 -> 2
      [] edge = 5 -> 5
      [] edge = 6 -> 6
      [] edge = 9 -> 9
      [] edge = 10 -> 10
      [] OTHER -> 0

\* the Wayland depressed-modifier mask translated to the CH9329 modifier byte
ModifierByte(mods) ==
      (IF HasBit(mods, 1) THEN 2 ELSE 0)
    + (IF HasBit(mods, 4) THEN 1 ELSE 0)
    + (IF HasBit(mods, 8) THEN 4 ELSE 0)
    + (IF HasBit(mods, 64) THEN 8 ELSE 0)

ButtonNum(button) ==
    CASE button = BTN_LEFT -> 1
      [] button = BTN_RIGHT -> 2
      [] button = BTN_MIDDLE -> 3
      [] OTHER -> 0

(***************************************************************************)
(* serial.cpp: the CH9329 frames.                                          *)
(***************************************************************************)
calculateChecksum(data) == SumSeq(data) % 256

\* sendData: the command with its checksum appended
sendCommandWithChecksum(cmd) == Append(cmd, calculateChecksum(cmd))

\* Serial::sendKeyPress: the bytes put on the wire
sendKeyPress(key_code, modifiers) ==
    sendCommandWithChecksum(
        <<87, 171, 0, 2, 8, modifiers % 256, 0, key_code % 256, 0, 0, 0, 0, 0>>)

\* Serial::sendKeyRelease: an all-zero report, whatever the key
sendKeyRelease(key_code, modifiers) ==
    sendCommandWithChecksum(<<87, 171, 0, 2, 8, 0, 0, 0, 0, 0, 0, 0, 0>>)

ButtonMask(button, pressed) ==
    IF ~pressed THEN 0
    ELSE CASE button = 1 -> 1
           [] button = 2 -> 2
           [] button \in {3, 4} -> 4
           [] OTHER -> 0

\* Serial::sendMouseButton with absolute = true
sendMouseButton(button, pressed, x, y) ==
    sendCommandWithChecksum(
        <<87, 171, 0, 4, 7, 2, ButtonMask(button, pressed),
          x % 256, (x \div 256) % 256, y % 256, (y \div 256) % 256, 0>>)

\* Input::injectMouseScroll(0, scroll_y) with scroll_y # 0
injectMouseScroll(scroll_x, scroll_y) ==
    sendCommandWithChecksum(
        <<87, 171, 0, 5, 5, 1, 0, 0, 0, IF scroll_y > 0 THEN 1 ELSE 255>>)

(***************************************************************************)
(* The protocol-event thread.  It dispatches one callback at a time; a      *)
(* callback runs to its return before the next event is dispatched.         *)
(* proto_trace lists, in order, what the callback now running (or the last  *)
(* one run) did on the xdg objects and the log; serial_call is the serial   *)
(* send the running callback is inside, NoCall when it is in none.          *)
(***************************************************************************)
MouseXs == {5, 960, 1915}
MouseYs == {5, 540}
Keys == {30, 42, 84}
Buttons == {272, 273, 274, 275}
ModMasks == {0, 5, 72}
AxisValues == {-15, 0, 15}

NoCall == [fn |-> "none", a |-> 0, b |-> 0, c |-> 0, d |-> 0]
Call(fn, a, b, c, d) == [fn |-> fn, a |-> a, b |-> b, c |-> c, d |-> d]
Req(op, arg) == [op |-> op, arg |-> arg]
B2N(b) == IF b THEN 1 ELSE 0

\* the ping handler as the list of its effects, in program order
xdg_wm_base_ping_mutant(variant, serial) ==
    IF variant = "gui.cpp"
    THEN <<Req("log", serial), Req("xdg_wm_base_pong", serial)>>
    ELSE <<Req("xdg_wm_base_pong", serial)>>
xdg_wm_base_ping(variant, serial) ==
    IF variant = "gui.cpp"
    THEN <<Req("xdg_wm_base_pong", serial), Req("log", serial)>>
    ELSE <<Req("xdg_wm_base_pong", serial)>>

\* the server's ping is dispatched: wl_display_dispatch enters the handler
DispatchPing ==
    /\ proto_pc = "idle"
    /\ \E serial \in 1..MaxSerial :
          /\ ping_serial' = serial
          /\ todo' = xdg_wm_base_ping(listener, serial)
    /\ proto_pc' = "xdg_wm_base_ping"
    /\ proto_trace' = <<>>
    /\ serial_call' = NoCall
    /\ UNCHANGED <<inputVars, serialVars, nonProtoVars, listener, wire>>

\* one statement of the ping handler; the handler returns after the last
PingStep ==
    /\ proto_pc = "xdg_wm_base_ping"
    /\ todo # <<>>
    /\ proto_trace' = Append(proto_trace, Head(todo))
    /\ todo' = Tail(todo)
    /\ proto_pc' = IF Tail(todo) = <<>> THEN "idle" ELSE proto_pc
    /\ UNCHANGED <<inputVars, serialVars, callVars, nonProtoVars, listener, ping_serial>>

\* what every input callback does to the thread state on entry; ping_serial,
\* the argument of the ping handler, is gone once another callback runs
Enter ==
    /\ proto_pc = "idle"
    /\ ping_serial' = 0
    /\ UNCHANGED <<listener, todo>>

\* the callback returns without a serial send
NoForward ==
    /\ serial_call' = NoCall
    /\ proto_pc' = "idle"
    /\ UNCHANGED wire

\* the callback calls into Serial: sendDataRaw writes and drains the port
Forward(call, bytes) ==
    /\ serial_call' = call
    /\ wire' = bytes
    /\ proto_pc' = "serial_write"

\* write() and tcdrain() return, then the callback
SerialWriteReturns ==
    /\ proto_pc = "serial_write"
    /\ proto_pc' = "idle"
    /\ serial_call' = NoCall
    /\ wire' = <<>>
    /\ UNCHANGED <<inputVars, serialVars, nonProtoVars, listener, ping_serial, todo, proto_trace>>

ForwardingReady == targets_set /\ forwarding_enabled /\ connected

\* debug_pointer_enter of gui_input.cpp for one enter event
pointer_enter(x, y) ==
    /\ Enter
    /\ last_mouse_x' = x
    /\ last_mouse_y' = y
    /\ mouse_over' = TRUE
    /\ proto_trace' = <<>>
    /\ NoForward
    /\ UNCHANGED <<input_active, is_resizing, resize_edge, current_modifiers,
                   xdg_toplevel_set, targets_set, serialVars, quietVars>>

debug_pointer_enter ==
    /\ \E x \in MouseXs, y \in MouseYs : pointer_enter(x, y)
    /\ UNCHANGED <<keyVars, evVars>>

debug_pointer_leave ==
    /\ Enter
    /\ mouse_over' = FALSE
    /\ proto_trace' = <<>>
    /\ NoForward
    /\ UNCHANGED <<input_active, is_resizing, resize_edge, last_mouse_x, last_mouse_y,
                   current_modifiers, xdg_toplevel_set, targets_set, serialVars, nonProtoVars>>

\* debug_pointer_motion of gui_input.cpp for one motion event
pointer_motion(x, y) ==
    /\ Enter
    /\ proto_trace' = <<>>
    /\ NoForward
    /\ IF ~mouse_over \/ ~input_active
       THEN UNCHANGED <<last_mouse_x, last_mouse_y, resize_edge>>
       ELSE /\ last_mouse_x' = x
            /\ last_mouse_y' = y
            /\ resize_edge' =
                  IF is_resizing THEN resize_edge
                  ELSE get_resize_edge(x, y, window_width, window_height, RESIZE_BORDER)
    /\ UNCHANGED <<mouse_over, input_active, is_resizing, current_modifiers,
                   xdg_toplevel_set, targets_set, serialVars, quietVars>>

debug_pointer_motion ==
    /\ \E x \in MouseXs, y \in MouseYs : pointer_motion(x, y)
    /\ UNCHANGED <<keyVars, evVars>>

\* the forwarding decision of debug_pointer_button once the gate is passed
ButtonResizing(button, pressed) ==
    IF button = BTN_LEFT /\ pressed /\ resize_edge # 0 /\ xdg_toplevel_set THEN TRUE
    ELSE IF button = BTN_LEFT /\ ~pressed THEN FALSE
    ELSE is_resizing

debug_pointer_button_gate == mouse_over /\ input_active

\* debug_pointer_button of gui_input.cpp for one button event
pointer_button(button, pressed) ==
    /\ Enter
    /\    IF ~debug_pointer_button_gate
          THEN /\ NoForward
               /\ proto_trace' = <<>>
               /\ UNCHANGED is_resizing
          ELSE LET starts == button = BTN_LEFT /\ pressed /\ resize_edge # 0 /\ xdg_toplevel_set
                   button_num == ButtonNum(button)
                   \* no video size is published to the callbacks: the window size stands in
                   video_width == window_width
                   video_height == window_height
                   n == normalizeMouseCoordinates(last_mouse_x, last_mouse_y,
                            window_width, window_height, video_width, video_height)
               IN /\ is_resizing' = ButtonResizing(button, pressed)
                  /\ proto_trace' = IF starts
                                    THEN <<Req("xdg_toplevel_resize", edge_to_xdg_edge(resize_edge))>>
                                    ELSE <<>>
                  /\ IF /\ ~ButtonResizing(button, pressed)
                        /\ ForwardingReady
                        /\ button_num > 0
                        /\ isMouseOverVideo(last_mouse_x, last_mouse_y, window_width,
                                            window_height, video_width, video_height)
                     THEN Forward(Call("sendMouseButton", button_num, B2N(pressed), n[1], n[2]),
                                  sendMouseButton(button_num, pressed, n[1], n[2]))
                     ELSE NoForward
    /\ UNCHANGED <<mouse_over, input_active, resize_edge, last_mouse_x, last_mouse_y,
                   current_modifiers, xdg_toplevel_set, targets_set, serialVars, quietVars>>

debug_pointer_button ==
    /\ \E button \in Buttons, pressed \in BOOLEAN : pointer_button(button, pressed)
    /\ UNCHANGED <<keyVars, evVars>>

\* scroll_value > 0 gives +1, < 0 gives -1, 0 gives no step
ScrollSteps_mutant(scroll_value) == scroll_value
ScrollSteps(scroll_value) ==
    IF scroll_value > 0 THEN 1 ELSE IF scroll_value < 0 THEN -1 ELSE 0

\* debug_pointer_axis of gui_input.cpp for one axis event
pointer_axis(axis, value) ==
    /\ Enter
    /\ proto_trace' = <<>>
    /\ IF /\ mouse_over /\ input_active
          /\ ForwardingReady
          /\ axis = 0
          /\ ScrollSteps(value) # 0
       THEN Forward(Call("injectMouseScroll", 0, ScrollSteps(value), 0, 0),
                    injectMouseScroll(0, ScrollSteps(value)))
       ELSE NoForward
    /\ UNCHANGED <<inputVars, serialVars, quietVars>>

debug_pointer_axis ==
    /\ \E axis \in {0, 1}, value \in AxisValues : pointer_axis(axis, value)
    /\ UNCHANGED <<keyVars, evVars>>

debug_keyboard_enter ==
    /\ Enter
    /\ input_active' = TRUE
    /\ proto_trace' = <<>>
    /\ NoForward
    /\ UNCHANGED <<mouse_over, is_resizing, resize_edge, last_mouse_x, last_mouse_y,
                   current_modifiers, xdg_toplevel_set, targets_set, serialVars, nonProtoVars>>

debug_keyboard_leave ==
    /\ Enter
    /\ input_active' = FALSE
    /\ proto_trace' = <<>>
    /\ NoForward
    /\ UNCHANGED <<mouse_over, is_resizing, resize_edge, last_mouse_x, last_mouse_y,
                   current_modifiers, xdg_toplevel_set, targets_set, serialVars, nonProtoVars>>

IsModifierKey_mutant(hid_keycode) == FALSE
IsModifierKey(hid_keycode) == hid_keycode >= 224 /\ hid_keycode <= 231

debug_keyboard_key_gate == input_active

\* debug_keyboard_key of gui_input.cpp for one key event
keyboard_key(key, pressed) ==
    /\ Enter
    /\ proto_trace' = <<>>
    /\ LET hid_keycode == linux_keycode_to_hid(key)
           modifiers == ModifierByte(current_modifiers)
       IN IF /\ debug_keyboard_key_gate
             /\ ForwardingReady
             /\ hid_keycode # 0
             /\ ~IsModifierKey(hid_keycode)
          THEN IF pressed
               THEN Forward(Call("sendKeyPress", hid_keycode, modifiers, 0, 0),
                            sendKeyPress(hid_keycode, modifiers))
               ELSE Forward(Call("sendKeyRelease", hid_keycode, modifiers, 0, 0),
                            sendKeyRelease(hid_keycode, modifiers))
          ELSE NoForward
    /\ UNCHANGED <<inputVars, serialVars, quietVars>>

debug_keyboard_key ==
    /\ \E key \in Keys, pressed \in BOOLEAN : keyboard_key(key, pressed)
    /\ UNCHANGED <<keyVars, evVars>>

debug_keyboard_modifiers ==
    /\ Enter
    /\ \E mods_depressed \in ModMasks : current_modifiers' = mods_depressed
    /\ proto_trace' = <<>>
    /\ NoForward
    /\ UNCHANGED <<mouse_over, input_active, is_resizing, resize_edge, last_mouse_x,
                   last_mouse_y, xdg_toplevel_set, targets_set, serialVars, nonProtoVars>>

\* Serial::connect succeeding, Serial::disconnect, Input::setForwardingEnabled:
\* called from the thread that also runs the event loop, between dispatches
SerialConnect ==
    /\ proto_pc = "idle"
    /\ ~connected
    /\ connected' = TRUE
    /\ UNCHANGED <<inputVars, forwarding_enabled, threadVars, callVars, nonProtoVars>>

SerialDisconnect ==
    /\ proto_pc = "idle"
    /\ connected
    /\ connected' = FALSE
    /\ UNCHANGED <<inputVars, forwarding_enabled, threadVars, callVars, nonProtoVars>>

setForwardingEnabled ==
    /\ proto_pc = "idle"
    /\ \E enabled \in BOOLEAN :
          /\ enabled # forwarding_enabled
          /\ forwarding_enabled' = enabled
    /\ UNCHANGED <<inputVars, connected, threadVars, callVars, nonProtoVars>>

InitProtoVars ==
    /\ mouse_over = FALSE
    /\ input_active = FALSE
    /\ is_resizing = FALSE
    /\ resize_edge = 0
    /\ last_mouse_x = 0
    /\ last_mouse_y = 0
    /\ current_modifiers = 0
    /\ forwarding_enabled = TRUE
    /\ connected = FALSE
    /\ proto_pc = "idle"
    /\ ping_serial = 0
    /\ todo = <<>>
    /\ proto_trace = <<>>
    /\ serial_call = NoCall
    /\ wire = <<>>

InitWinVars ==
    /\ window_width = DefaultWidth
    /\ window_height = DefaultHeight
    /\ needs_resize = FALSE

\* a default-constructed VideoFrame and VideoProcessor, no call made yet
EmptyVideoFrame == [data_len |-> 0, width |-> 0, height |-> 0, is_rgb |-> FALSE]
NoFrame == [data_null |-> TRUE, size |-> 0, kind |-> "none", width |-> 0, height |-> 0]

InitDecodeVars ==
    /\ output = EmptyVideoFrame
    /\ last_error = ""
    /\ pf_frame = NoFrame
    /\ pf_ret = "none"
    /\ pf_pc = "idle"
    /\ pf_prev = EmptyVideoFrame

\* a window is up and the seat has handed out pointer and keyboard; which
\* shell made the window, whether the forwarding targets were set, and which
\* of the two ping listeners of the sources is linked, are fixed from the start
\* the frame slot of a fresh GUI::Impl; nothing has arrived, nobody is inside
EmptySlot == [data |-> 0, size |-> 0]
NoArrival == [data |-> 0, size |-> 0, width |-> 0, height |-> 0]

InitFrameVars ==
    /\ current_frame = EmptySlot
    /\ frame_width = 0
    /\ frame_height = 0
    /\ has_new_frame = FALSE
    /\ frame_mutex = "free"
    /\ writer_pc = "idle"
    /\ writer_frame = NoArrival
    /\ reader_pc = "idle"
    /\ reader_view = NoArrival
    /\ last_valid = NoArrival

\* a fresh GUI::Impl: nothing initialized, no window, no buffer
MAP_FAILED == -1
NoUnmap == [len |-> 0, mapped |-> 0]
NoProposal == [width |-> 0, height |-> 0, old_width |-> 0, old_height |-> 0,
               old_needs |-> FALSE, elapsed |-> 0, log |-> "none"]
RateLimitMs == 16

InitBufVars ==
    /\ initialized = FALSE
    /\ window_created = FALSE
    /\ surface_set = FALSE
    /\ buffer = 0
    /\ shm_data = 0
    /\ shm_fd = -1
    /\ live_maps = {}
    /\ live_fds = {}
    /\ live_bufs = {}
    /\ n_created = 0
    /\ n_destroyed = 0
    /\ last_unmap = NoUnmap
    /\ time_since_last = RateLimitMs + 1
    /\ cfg = NoProposal
    /\ api_pc = "idle"
    /\ loop_pc = "top"
    /\ resize_mutex = "free"
    /\ loop_buf = 0

\* nothing bound, no call made
Unbound == [display |-> FALSE, compositor |-> FALSE, shm |-> FALSE,
            xdg_wm_base |-> FALSE, shell |-> FALSE]
NoReturn == [op |-> "none", value |-> "none"]

InitGlobalVars ==
    /\ globals = [compositor |-> TRUE, shm |-> TRUE, xdg_wm_base |-> TRUE, shell |-> FALSE]
    /\ bound = Unbound
    /\ gui_ret = NoReturn

NoNormArgs == [x |-> 0, y |-> 0, window_width |-> DefaultWidth, window_height |-> DefaultHeight]
NoNormRet == <<-1, -1>>

InitNormVars ==
    /\ norm_args = NoNormArgs
    /\ norm_ret = NoNormRet

NoRenderArgs == [width |-> 0, height |-> 0, is_rgb |-> FALSE, data_len |-> 0, seed |-> 0,
                 buffer_width |-> 0, buffer_height |-> 0]

InitRenderVars ==
    /\ rv_args = NoRenderArgs
    /\ rv_pixels = <<>>
    /\ rv_pc = "idle"
    /\ rv_y = 0
    /\ rv_oob = FALSE

\* the threads that call into GPUVideoRenderer
GpuThreads == {"main", "render"}
\* EGL_NO_CONTEXT; contexts are numbered 1, 2, ... in the order eglCreateContext made them
NoContext == 0
NoGpuFrame == [is_rgb |-> FALSE, empty |-> TRUE]
NoGpuCall == [op |-> "none", thread |-> "none", value |-> FALSE, gl |-> FALSE,
              frame |-> NoGpuFrame]

\* a default-constructed GPUVideoRenderer; no context is current anywhere
InitGpuVars ==
    /\ gpu = [initialized |-> FALSE, context_created |-> FALSE,
              egl_display |-> FALSE, egl_context |-> NoContext,
              gl_objects |-> FALSE]
    /\ current_on = [t \in GpuThreads |-> NoContext]
    /\ gpu_hist = [initialize_ok |-> FALSE, in_thread_ok |-> FALSE, claims |-> 0,
                   contexts |-> 0, claimer |-> "none"]
    /\ gpu_ret = NoGpuCall

\* the three workers of ThreadManager
Workers == {"wayland", "render", "input"}
\* a std::thread that is not joinable
NoThread == 0
TmIdle == [in |-> "idle", w |-> "none", stage |-> 0, waiting |-> FALSE]
NoTmCall == [op |-> "none", w |-> "none", was_running |-> FALSE, thread_before |-> NoThread,
             started_before |-> 0]

\* a default-constructed ThreadManager
InitTmVars ==
    /\ tm_running = [w \in Workers |-> FALSE]
    /\ tm_thread = [w \in Workers |-> NoThread]
    /\ tm_done = [w \in Workers |-> FALSE]
    /\ tm_started = [w \in Workers |-> 0]
    /\ tm_live = [w \in Workers |-> {}]
    /\ tm_pc = TmIdle
    /\ tm_last = NoTmCall
    /\ tm_joins = <<>>
    /\ tm_destroyed = FALSE

\* runEventLoop has not been called, exit_requested{false}
InitElVars ==
    /\ el_pc = "not called"
    /\ exit_requested = FALSE
    /\ el_cause = "none"
    /\ el_iters = 0

\* no key event delivered yet
NoKeyEvent == [key |-> 0, tick |-> 0]

InitKeyVars == key_event = NoKeyEvent

\* no pointer event delivered yet; nothing pressed on the target
NoEvent == [kind |-> "none", a |-> 0, b |-> 0, tick |-> 0]
NothingHeld == [button |-> FALSE, key |-> FALSE]

InitEvVars ==
    /\ last_event = NoEvent
    /\ held = NothingHeld
    /\ keys_down = [local |-> {}, target |-> {}]

\* no worker function has been entered, no notification sent
InitWkVars ==
    /\ wk_pc = [w \in Workers |-> "none"]
    /\ wk_signal = [w \in Workers |-> "none"]

\* a default-constructed Serial: no connection thread, fd = -1
InitCnVars ==
    /\ cn_pc = "idle"
    /\ cn_fd = -1

\* no video display started, no capture thread
InitDispVars ==
    /\ video_displayed = FALSE
    /\ capturing = FALSE

\* the compositor has proposed nothing
NoSize == <<0, 0>>
InitSrvVars ==
    /\ srv_last = NoSize
    /\ srv_sent = 0

InitExtVars ==
    /\ InitGlobalVars
    /\ InitNormVars
    /\ InitRenderVars
    /\ InitGpuVars
    /\ InitTmVars
    /\ InitElVars
    /\ InitKeyVars
    /\ InitEvVars
    /\ InitWkVars
    /\ InitCnVars
    /\ InitDispVars
    /\ InitSrvVars

InitProto ==
    /\ InitExtVars
    /\ InitProtoVars
    /\ InitWinVars
    /\ InitDecodeVars
    /\ InitFrameVars
    /\ InitBufVars
    /\ shell_kind = "xdg"
    /\ xdg_toplevel_set \in BOOLEAN
    /\ targets_set \in BOOLEAN
    /\ listener \in {"gui.cpp", "gui_wayland.cpp"}

NextProto ==
    \/ DispatchPing
    \/ PingStep
    \/ SerialWriteReturns
    \/ debug_pointer_enter
    \/ debug_pointer_leave
    \/ debug_pointer_motion
    \/ debug_pointer_button
    \/ debug_pointer_axis
    \/ debug_keyboard_enter
    \/ debug_keyboard_leave
    \/ debug_keyboard_key
    \/ debug_keyboard_modifiers
    \/ SerialConnect
    \/ SerialDisconnect
    \/ setForwardingEnabled

SpecProto == InitProto /\ [][NextProto]_vars

(***************************************************************************)
(* Claims about the protocol-event thread.                                 *)
(***************************************************************************)
Pong(serial) == Req("xdg_wm_base_pong", serial)

\* C1: on a ping, the first thing the handler does is the pong carrying the
\* serial of that ping: from entry to the pong it neither logs nor issues
\* another request, no other callback is dispatched, and no state is touched.
C1_PongFirst ==
    [][(proto_pc = "xdg_wm_base_ping" /\ proto_trace = <<>>)
          => /\ proto_trace' = <<Pong(ping_serial)>>
             /\ UNCHANGED <<inputVars, serialVars, callVars, winVars, ping_serial>>]_vars

\* the handler of gui.cpp has returned: the pong went out first, the log after
C1_Witness ==
    /\ proto_pc = "idle"
    /\ ping_serial # 0
    /\ proto_trace = <<Pong(ping_serial), Req("log", ping_serial)>>

\* C2: a key press, key release, mouse button or scroll is sent on to the
\* serial link only while the pointer is over the window and the window has
\* keyboard focus.
C2_ForwardOnlyOverAndFocused ==
    serial_call # NoCall => (mouse_over /\ input_active)

\* C3: no protocol callback run by the protocol-event thread is ever inside
\* the blocking serial send.
C3_NoSerialSendInCallback ==
    proto_pc # "serial_write"

(***************************************************************************)
(* jpeg_decoder.cpp and gui_video.cpp: decoding one captured frame.        *)
(* The bytes of a frame are described by what libjpeg makes of them: kind  *)
(* "ok" decodes to a picture of width x height, "corrupt" makes libjpeg    *)
(* call error_exit, "bad_header" fails jpeg_read_header, "short" runs out  *)
(* of scanlines.                                                           *)
(***************************************************************************)
JpegKinds == {"ok", "corrupt", "bad_header", "short"}
JpegDims == {0, 1, 2, 8192, 8193}
MaxJpegDim == 8192
MaxRgbBytes == 209715200
FrameSizes == {0, 4096}

Frames ==
    [data_null : BOOLEAN, size : FrameSizes, kind : JpegKinds,
     width : JpegDims, height : JpegDims]

\* JpegDecoder::decode: the result and the DecodedFrame fields as left behind
DecodeResult(ok, w, h, n, err) ==
    [ok |-> ok, width |-> w, height |-> h, rgb_len |-> n, error |-> err]

decode(frame) ==
    IF frame.data_null \/ frame.size = 0
        THEN DecodeResult(FALSE, 0, 0, 0, "Invalid JPEG data")
    ELSE IF frame.kind = "corrupt"
        THEN DecodeResult(FALSE, 0, 0, 0, "JPEG decode error")
    ELSE IF frame.kind = "bad_header"
        THEN DecodeResult(FALSE, 0, 0, 0, "Failed to read JPEG header")
    ELSE IF frame.width <= 0 \/ frame.height <= 0
        THEN DecodeResult(FALSE, 0, 0, 0, "Invalid JPEG dimensions")
    ELSE IF frame.width > MaxJpegDim \/ frame.height > MaxJpegDim
        THEN DecodeResult(FALSE, 0, 0, 0, "JPEG dimensions too large")
    ELSE IF frame.height * (frame.width * 3) > MaxRgbBytes
        THEN DecodeResult(FALSE, frame.width, frame.height, 0, "JPEG buffer size too large")
    ELSE IF frame.kind = "short"
        THEN DecodeResult(FALSE, frame.width, frame.height,
                          frame.height * (frame.width * 3), "Failed to read JPEG scanline")
    ELSE DecodeResult(TRUE, frame.width, frame.height,
                      frame.height * (frame.width * 3), "")

\* gui_video.cpp:15-18, the first statements of processFrame
processFrame_clear_mutant(out) == out
processFrame_clear(out) ==
    [data_len |-> 0, width |-> 0, height |-> 0, is_rgb |-> FALSE]

\* processFrame is called with a frame and the caller's VideoFrame, and
\* clears the VideoFrame before it looks at the frame
processFrame_enter ==
    /\ pf_pc = "idle"
    /\ \E frame \in Frames : pf_frame' = frame
    /\ output' = processFrame_clear(output)
    /\ pf_prev' = output
    /\ pf_pc' = "decode"
    /\ pf_ret' = "none"
    /\ UNCHANGED <<last_error, nonDecodeVars>>

\* the rest of processFrame, to its return
processFrame_finish ==
    /\ pf_pc = "decode"
    /\ pf_pc' = "idle"
    /\ IF pf_frame.data_null \/ pf_frame.size = 0
       THEN /\ last_error' = "Invalid frame data"
            /\ pf_ret' = "false"
            /\ UNCHANGED output
       ELSE LET decoded_frame == decode(pf_frame)
            IN IF decoded_frame.ok
               THEN /\ output' = [data_len |-> decoded_frame.rgb_len,
                                  width |-> decoded_frame.width,
                                  height |-> decoded_frame.height,
                                  is_rgb |-> TRUE]
                    /\ pf_ret' = "true"
                    /\ UNCHANGED last_error
               ELSE /\ last_error' = "MJPEG decode failed: " \o decoded_frame.error
                    /\ pf_ret' = "false"
                    /\ UNCHANGED output
    /\ UNCHANGED <<pf_frame, pf_prev, nonDecodeVars>>

InitDecode ==
    /\ InitExtVars
    /\ InitProtoVars
    /\ xdg_toplevel_set = TRUE
    /\ targets_set = TRUE
    /\ listener = "gui.cpp"
    /\ InitWinVars
    /\ InitDecodeVars
    /\ InitFrameVars
    /\ InitBufVars
    /\ shell_kind = "xdg"

NextDecode ==
    \/ processFrame_enter
    \/ processFrame_finish

SpecDecode == InitDecode /\ [][NextDecode]_vars

\* C5: processFrame invalidates the output before it decodes; a null or
\* empty input, or a frame the decoder fails on, gives false, an error string
\* and an invalid output (no data, no size, is_rgb false) whatever the output
\* held before; success gives is_rgb and data of width*height*3 bytes.
C5_ProcessFrame ==
    /\ pf_pc = "decode" => output = EmptyVideoFrame
    /\ pf_ret = "false" =>
          /\ output = EmptyVideoFrame
          /\ last_error # ""
    /\ (pf_pc = "idle" /\ pf_ret # "none"
        /\ (pf_frame.data_null \/ pf_frame.size = 0 \/ pf_frame.kind # "ok"
            \/ pf_frame.width \notin 1..MaxJpegDim \/ pf_frame.height \notin 1..MaxJpegDim))
          => pf_ret = "false"
    /\ pf_ret = "true" =>
          /\ output.is_rgb
          /\ output.width = pf_frame.width
          /\ output.height = pf_frame.height
          /\ output.width > 0 /\ output.height > 0
          /\ output.data_len = output.width * output.height * 3

\* a frame has been decoded into the output and the next call, on a frame
\* the decoder fails on, has returned
C5_Witness ==
    /\ pf_pc = "idle"
    /\ pf_prev.is_rgb
    /\ pf_prev.data_len = 8192 * 8192 * 3
    /\ output = EmptyVideoFrame
    /\ pf_ret = "false"
    /\ ~pf_frame.data_null /\ pf_frame.size > 0
    /\ last_error = "MJPEG decode failed: JPEG decode error"

(***************************************************************************)
(* gui.cpp: the single frame slot.  The capture thread delivers frames to  *)
(* onVideoFrame; the window thread reads the slot in the fill block of     *)
(* createBuffer.  Both take frame_mutex.  A frame's bytes are named by the *)
(* picture they hold (data = 0 is the null pointer); a picture has the     *)
(* size in bytes and the width and height the capture device gave it.      *)
(***************************************************************************)
Pictures ==
    { [id |-> 1, size |-> 3000, width |-> 640, height |-> 480],
      [id |-> 2, size |-> 3500, width |-> 640, height |-> 480],
      [id |-> 3, size |-> 9000, width |-> 1920, height |-> 1080] }

\* what the capture thread can hand over: a picture, a picture with no bytes
\* used, or a null buffer
Arrivals ==
    { [data |-> p.id, size |-> p.size, width |-> p.width, height |-> p.height] :
          p \in Pictures }
    \cup { [data |-> p.id, size |-> 0, width |-> p.width, height |-> p.height] :
          p \in Pictures }
    \cup { [data |-> 0, size |-> n, width |-> 640, height |-> 480] : n \in {0, 3000} }

onVideoFrame_lock_mutant(m) == TRUE
onVideoFrame_lock(m) == m = "free"

onVideoFrame_accepts_mutant(frame) == TRUE
onVideoFrame_accepts(frame) == frame.data # 0 /\ frame.size > 0

\* the capture thread calls the frame callback
onVideoFrame_call ==
    /\ writer_pc = "idle"
    /\ \E frame \in Arrivals :
          /\ writer_frame' = frame
          /\ last_valid' = IF frame.data # 0 /\ frame.size > 0 THEN frame ELSE last_valid
    /\ writer_pc' = "lock"
    /\ UNCHANGED <<slotVars, frame_mutex, reader_pc, reader_view, needs_resize, nonFrameVars>>

\* std::lock_guard lock(frame_mutex), then the test of the frame
onVideoFrame_enter ==
    /\ writer_pc = "lock"
    /\ onVideoFrame_lock(frame_mutex)
    /\ frame_mutex' = "writer"
    /\ writer_pc' = IF onVideoFrame_accepts(writer_frame) THEN "resize" ELSE "unlock"
    /\ UNCHANGED <<slotVars, writer_frame, reader_pc, reader_view, last_valid,
                   needs_resize, nonFrameVars>>

\* current_frame.resize(frame.size)
onVideoFrame_resize ==
    /\ writer_pc = "resize"
    /\ current_frame' = [current_frame EXCEPT !.size = writer_frame.size]
    /\ writer_pc' = "memcpy"
    /\ UNCHANGED <<frame_width, frame_height, has_new_frame, frame_mutex, writer_frame,
                   reader_pc, reader_view, last_valid, needs_resize, nonFrameVars>>

\* memcpy(current_frame.data(), frame.data, frame.size)
onVideoFrame_memcpy ==
    /\ writer_pc = "memcpy"
    /\ current_frame' = [current_frame EXCEPT !.data = writer_frame.data]
    /\ writer_pc' = "width"
    /\ UNCHANGED <<frame_width, frame_height, has_new_frame, frame_mutex, writer_frame,
                   reader_pc, reader_view, last_valid, needs_resize, nonFrameVars>>

onVideoFrame_width ==
    /\ writer_pc = "width"
    /\ frame_width' = writer_frame.width
    /\ writer_pc' = "height"
    /\ UNCHANGED <<current_frame, frame_height, has_new_frame, frame_mutex, writer_frame,
                   reader_pc, reader_view, last_valid, needs_resize, nonFrameVars>>

\* frame_height, has_new_frame and needs_resize
onVideoFrame_height ==
    /\ writer_pc = "height"
    /\ frame_height' = writer_frame.height
    /\ has_new_frame' = TRUE
    /\ needs_resize' = TRUE
    /\ writer_pc' = "unlock"
    /\ UNCHANGED <<current_frame, frame_width, frame_mutex, writer_frame,
                   reader_pc, reader_view, last_valid, nonFrameVars>>

\* the lock_guard goes out of scope and onVideoFrame returns
onVideoFrame_return ==
    /\ writer_pc = "unlock"
    /\ frame_mutex' = IF frame_mutex = "writer" THEN "free" ELSE frame_mutex
    /\ writer_pc' = "idle"
    /\ UNCHANGED <<slotVars, writer_frame, reader_pc, reader_view, last_valid,
                   needs_resize, nonFrameVars>>

\* createBuffer, gui.cpp:1328: the window thread takes the frame lock
createBuffer_fill_lock ==
    /\ reader_pc = "idle"
    /\ frame_mutex = "free"
    /\ frame_mutex' = "reader"
    /\ reader_pc' = "render"
    /\ UNCHANGED <<slotVars, writer_pc, writer_frame, reader_view, last_valid,
                   needs_resize, nonFrameVars>>

\* gui.cpp:1330-1372: it reads the slot and paints; a new frame is consumed
createBuffer_fill_render ==
    /\ reader_pc = "render"
    /\ reader_view' = [data |-> current_frame.data, size |-> current_frame.size,
                       width |-> frame_width, height |-> frame_height]
    /\ has_new_frame' =
          IF has_new_frame /\ current_frame.size # 0 /\ frame_width > 0 /\ frame_height > 0
          THEN FALSE ELSE has_new_frame
    /\ reader_pc' = "unlock"
    /\ UNCHANGED <<current_frame, frame_width, frame_height, frame_mutex, writer_pc,
                   writer_frame, last_valid, needs_resize, nonFrameVars>>

createBuffer_fill_unlock ==
    /\ reader_pc = "unlock"
    /\ frame_mutex' = IF frame_mutex = "reader" THEN "free" ELSE frame_mutex
    /\ reader_pc' = "idle"
    /\ UNCHANGED <<slotVars, writer_pc, writer_frame, reader_view, last_valid,
                   needs_resize, nonFrameVars>>

InitFrame ==
    /\ InitExtVars
    /\ InitProtoVars
    /\ xdg_toplevel_set = TRUE
    /\ targets_set = TRUE
    /\ listener = "gui.cpp"
    /\ InitWinVars
    /\ InitDecodeVars
    /\ InitFrameVars
    /\ InitBufVars
    /\ shell_kind = "xdg"

NextFrame ==
    \/ onVideoFrame_call
    \/ onVideoFrame_enter
    \/ onVideoFrame_resize
    \/ onVideoFrame_memcpy
    \/ onVideoFrame_width
    \/ onVideoFrame_height
    \/ onVideoFrame_return
    \/ createBuffer_fill_lock
    \/ createBuffer_fill_render
    \/ createBuffer_fill_unlock

SpecFrame == InitFrame /\ [][NextFrame]_vars

\* the slot as one value
Slot == [data |-> current_frame.data, size |-> current_frame.size,
         width |-> frame_width, height |-> frame_height]

\* bytes, length and declared size all belong to one picture, or nothing is stored
Agrees(view) ==
    \/ view = NoArrival
    \/ \E p \in Pictures :
          view = [data |-> p.id, size |-> p.size, width |-> p.width, height |-> p.height]

C6_SlotIsLatestValid ==
    writer_pc = "idle" => Slot = last_valid

\* two frames arrived unconsumed, then one with no bytes: the second is kept
C6_Witness ==
    /\ writer_pc = "idle"
    /\ writer_frame.data # 0 /\ writer_frame.size = 0
    /\ has_new_frame
    /\ Slot = last_valid
    /\ last_valid.data # 0 /\ last_valid.data # writer_frame.data

(***************************************************************************)
(* gui.cpp: the window and its shared-memory surface buffer.  The calls    *)
(* of the GUI interface and the resize proposals of the server run one     *)
(* after the other here; a call is one step.  The three handles of         *)
(* GUI::Impl are numbers: buffer 0 is the null pointer, shm_data 0 the     *)
(* null pointer and MAP_FAILED the failed mapping, shm_fd -1 no            *)
(* descriptor; any other value names the createBuffer call that made it.   *)
(***************************************************************************)
MaxCreates == 2
MaxBufferDim == 8192
MaxConfigureDim == 4096

WindowSizes == {<<1920, 1080>>, <<800, 600>>, <<9000, 600>>}
Proposals == {<<0, 600>>, <<800, 600>>, <<1920, 1080>>, <<4096, 4096>>, <<4097, 600>>,
              <<800, 8193>>}
CreateOutcomes == {"ok", "memfd_fail", "ftruncate_fail", "mmap_fail", "pool_fail",
                   "buffer_fail"}

\* the handles and what stands behind them, as one value
Handles ==
    [buffer |-> buffer, shm_data |-> shm_data, shm_fd |-> shm_fd,
     maps |-> live_maps, fds |-> live_fds, bufs |-> live_bufs,
     created |-> n_created, destroyed |-> n_destroyed, unmap |-> last_unmap]

SetHandles(h) ==
    /\ buffer' = h.buffer
    /\ shm_data' = h.shm_data
    /\ shm_fd' = h.shm_fd
    /\ live_maps' = h.maps
    /\ live_fds' = h.fds
    /\ live_bufs' = h.bufs
    /\ n_created' = h.created
    /\ n_destroyed' = h.destroyed
    /\ last_unmap' = h.unmap

SizeOf(table, id) == (CHOOSE e \in table : e.id = id).size

\* munmap(addr, len): the pages of the mapping inside the range go
Munmap(maps, id, len) ==
    LET m == CHOOSE e \in maps : e.id = id
    IN IF len >= m.size THEN maps \ {m}
       ELSE (maps \ {m}) \cup {[id |-> id, size |-> m.size - len]}

\* GUI::Impl::destroyBuffer in its three steps: the server buffer,
destroyBuffer_buffer(h) ==
    IF h.buffer # 0
    THEN [h EXCEPT !.bufs = @ \ {h.buffer}, !.buffer = 0, !.destroyed = @ + 1]
    ELSE h

\* the mapping, by the size fstat gives for shm_fd or, with no descriptor,
\* by the size of the window as it is now,
destroyBuffer_munmap(h, ww, wh) ==
    LET len == IF h.shm_fd # -1 THEN SizeOf(h.fds, h.shm_fd) ELSE ww * wh * 4
    IN IF h.shm_data # 0 /\ h.shm_data # MAP_FAILED
       THEN IF h.shm_fd # -1 \/ len > 0
            THEN [h EXCEPT !.maps = Munmap(@, h.shm_data, len),
                           !.unmap = [len |-> len, mapped |-> SizeOf(h.maps, h.shm_data)],
                           !.shm_data = 0]
            ELSE [h EXCEPT !.shm_data = 0]
       ELSE h

\* and the descriptor
destroyBuffer_close(h) ==
    IF h.shm_fd # -1
    THEN [h EXCEPT !.fds = {e \in @ : e.id # h.shm_fd}, !.shm_fd = -1]
    ELSE h

destroyBuffer(h, ww, wh) ==
    destroyBuffer_close(destroyBuffer_munmap(destroyBuffer_buffer(h), ww, wh))

\* GUI::Impl::createBuffer up to the fill block: the result and the handles.
\* outcome says which of the calls it makes fails, id names what it makes.
createBuffer(h, width, height, outcome, id, ww, wh) ==
    LET size == (width * 4) * height
        opened == [h EXCEPT !.shm_fd = id, !.fds = @ \cup {[id |-> id, size |-> size]}]
        mapped == [opened EXCEPT !.shm_data = id,
                                 !.maps = @ \cup {[id |-> id, size |-> size]}]
    IN IF width <= 0 \/ height <= 0 THEN [ok |-> FALSE, h |-> h]
       ELSE IF width > MaxBufferDim \/ height > MaxBufferDim THEN [ok |-> FALSE, h |-> h]
       ELSE CASE outcome = "memfd_fail" ->
                    [ok |-> FALSE, h |-> [h EXCEPT !.shm_fd = -1]]
              [] outcome = "ftruncate_fail" ->
                    [ok |-> FALSE, h |-> [h EXCEPT !.shm_fd = -1]]
              [] outcome = "mmap_fail" ->
                    [ok |-> FALSE, h |-> [h EXCEPT !.shm_fd = -1, !.shm_data = MAP_FAILED]]
              [] outcome = "pool_fail" ->
                    [ok |-> FALSE, h |-> destroyBuffer(mapped, ww, wh)]
              [] outcome = "buffer_fail" ->
                    [ok |-> FALSE, h |-> destroyBuffer([mapped EXCEPT !.buffer = 0], ww, wh)]
              [] OTHER ->
                    [ok |-> TRUE,
                     h |-> [mapped EXCEPT !.buffer = id, !.bufs = @ \cup {id},
                                          !.created = @ + 1]]

\* GUI::initialize with initWayland succeeding
initialize ==
    /\ ~initialized
    /\ initialized' = TRUE
    /\ cfg' = NoProposal
    /\ UNCHANGED <<window_created, shell_kind, surface_set, handleVars, time_since_last,
                   winVars, protoVars, decodeVars, frameVars, raceVars, extVars>>

\* GUI::createWindow(title, width, height) and createWaylandWindow
createWindow ==
    /\ n_created < MaxCreates
    /\ \E size \in WindowSizes, outcome \in CreateOutcomes :
          LET r == createBuffer(Handles, size[1], size[2], outcome, n_created + 1,
                                size[1], size[2])
              made == initialized /\ shell_kind = "xdg" /\ r.ok
          IN /\ window_width' = size[1]
             /\ window_height' = size[2]
             /\ surface_set' = (initialized \/ surface_set)
             /\ xdg_toplevel_set' = ((initialized /\ shell_kind = "xdg") \/ xdg_toplevel_set)
             /\ IF initialized /\ shell_kind = "xdg"
                THEN SetHandles(r.h)
                ELSE UNCHANGED handleVars
             /\ window_created' = (made \/ (initialized /\ shell_kind = "wl_shell")
                                   \/ window_created)
             /\ has_new_frame' =
                   IF made /\ has_new_frame /\ current_frame.size # 0
                      /\ frame_width > 0 /\ frame_height > 0
                   THEN FALSE ELSE has_new_frame
    /\ cfg' = NoProposal
    /\ UNCHANGED <<initialized, shell_kind, time_since_last, needs_resize,
                   mouse_over, input_active, is_resizing, resize_edge, last_mouse_x,
                   last_mouse_y, current_modifiers, targets_set,
                   serialVars, threadVars, callVars, decodeVars,
                   current_frame, frame_width, frame_height, frame_mutex, writer_pc,
                   writer_frame, reader_pc, reader_view, last_valid, raceVars, extVars>>

\* GUI::destroyWindow
destroyWindow ==
    /\ IF window_created
       THEN /\ SetHandles(destroyBuffer(Handles, window_width, window_height))
            /\ surface_set' = FALSE
            /\ window_created' = FALSE
       ELSE UNCHANGED <<handleVars, surface_set, window_created>>
    /\ video_displayed' = IF window_created THEN FALSE ELSE video_displayed
    /\ cfg' = NoProposal
    /\ UNCHANGED <<initialized, shell_kind, time_since_last, winVars, protoVars,
                   decodeVars, frameVars, raceVars, extQuiet, capturing, srvVars>>

\* GUI::shutdown: destroyWindow, then cleanupWayland
shutdown ==
    /\ initialized
    /\ IF window_created
       THEN /\ SetHandles(destroyBuffer(Handles, window_width, window_height))
            /\ window_created' = FALSE
       ELSE UNCHANGED <<handleVars, window_created>>
    /\ surface_set' = FALSE
    /\ initialized' = FALSE
    /\ video_displayed' = FALSE
    /\ cfg' = NoProposal
    /\ UNCHANGED <<shell_kind, time_since_last, winVars, protoVars, decodeVars, frameVars,
                   raceVars, extQuiet, capturing, srvVars>>

\* the dimension test of xdg_toplevel_configure
configure_valid(width, height) ==
    width > 0 /\ height > 0 /\ width <= MaxConfigureDim /\ height <= MaxConfigureDim

\* the rate limit of xdg_toplevel_configure: whole milliseconds since the
\* last applied proposal
configure_rate_ok_mutant(elapsed) == elapsed >= RateLimitMs
configure_rate_ok(elapsed) == elapsed > RateLimitMs

\* xdg_toplevel_configure(width, height): the server proposes a size.  cfg
\* keeps the proposal, the state it met and the branch taken, named by its log.
configure_proposal(proposal) ==
    /\ window_created
    /\ shell_kind = "xdg"
    /\ LET width == proposal[1]
           height == proposal[2]
           differs == window_width # width \/ window_height # height
           applies == configure_valid(width, height) /\ differs
                      /\ configure_rate_ok(time_since_last)
           branch == IF ~configure_valid(width, height) THEN "invalid"
                     ELSE IF ~differs THEN "same"
                     ELSE IF configure_rate_ok(time_since_last) THEN "triggered"
                     ELSE "rate limited"
       IN /\ cfg' = [width |-> width, height |-> height,
                     old_width |-> window_width, old_height |-> window_height,
                     old_needs |-> needs_resize, elapsed |-> time_since_last,
                     log |-> branch]
          /\ window_width' = IF applies THEN width ELSE window_width
          /\ window_height' = IF applies THEN height ELSE window_height
          /\ needs_resize' = IF applies THEN TRUE ELSE needs_resize
          /\ time_since_last' = IF applies THEN 0 ELSE time_since_last
    /\ UNCHANGED <<initialized, window_created, shell_kind, surface_set, handleVars,
                   protoVars, decodeVars, frameVars, raceVars, extRest>>

xdg_toplevel_configure ==
    /\ \E proposal \in Proposals : configure_proposal(proposal)
    /\ UNCHANGED srvVars

\* time passes: the steady clock reaches 16 ms after last_update, then 17 ms
Tick ==
    /\ time_since_last <= RateLimitMs
    /\ time_since_last' = IF time_since_last < RateLimitMs
                          THEN RateLimitMs ELSE RateLimitMs + 1
    /\ cfg' = NoProposal
    /\ UNCHANGED <<initialized, window_created, shell_kind, surface_set, handleVars,
                   winVars, protoVars, decodeVars, frameVars, raceVars, extVars>>

\* runEventLoop, gui.cpp:882-906: the pending resize is taken up; the
\* buffer is left as it is
runEventLoop_resize ==
    /\ initialized
    /\ needs_resize /\ surface_set
    /\ needs_resize' =
          IF window_width > 0 /\ window_height > 0
             /\ window_width <= MaxConfigureDim /\ window_height <= MaxConfigureDim
          THEN FALSE ELSE needs_resize
    /\ cfg' = NoProposal
    /\ UNCHANGED <<initialized, window_created, shell_kind, surface_set, handleVars,
                   time_since_last, window_width, window_height,
                   protoVars, decodeVars, frameVars, raceVars, extVars>>

InitWindow ==
    /\ InitExtVars
    /\ InitProtoVars
    /\ xdg_toplevel_set = FALSE
    /\ targets_set = TRUE
    /\ listener = "gui.cpp"
    /\ InitWinVars
    /\ InitDecodeVars
    /\ InitFrameVars
    /\ InitBufVars
    /\ shell_kind \in {"xdg", "wl_shell", "none"}

NextWindow ==
    \/ initialize
    \/ createWindow
    \/ destroyWindow
    \/ shutdown
    \/ xdg_toplevel_configure
    \/ Tick
    \/ runEventLoop_resize

SpecWindow == InitWindow /\ [][NextWindow]_vars

(***************************************************************************)
(* gui.cpp: the buffer between two threads.  One thread is inside          *)
(* GUI::runEventLoop, which blocks its caller until the display is gone or *)
(* exit is requested; the other calls GUI::shutdown meanwhile, as          *)
(* KVMManager::stopGUI does.  Both are followed statement by statement     *)
(* where they touch the buffer, the surface or resize_mutex.  The start is *)
(* the state SpecWindow reaches by initialize and a createWindow that      *)
(* succeeds, with the event loop entered.                                  *)
(***************************************************************************)
RaceWindowSizes == {<<1920, 1080>>, <<800, 600>>}

RaceUnchanged ==
    UNCHANGED <<shell_kind, time_since_last, window_width, window_height,
                protoVars, decodeVars, frameVars, extVars>>

\* runEventLoop, gui.cpp:857-870: a pending resize proposal is dispatched
runEventLoop_dispatch ==
    /\ loop_pc = "top"
    /\ initialized
    /\ xdg_toplevel_configure

\* runEventLoop, gui.cpp:883-889: the resize block is entered with
\* try_to_lock, or passed by
runEventLoop_try_lock ==
    /\ loop_pc = "top"
    /\ initialized
    /\ IF needs_resize /\ surface_set /\ resize_mutex = "free"
       THEN /\ resize_mutex' = "loop"
            /\ loop_pc' = "resize"
       ELSE /\ loop_pc' = "commit_check"
            /\ UNCHANGED resize_mutex
    /\ cfg' = NoProposal
    /\ UNCHANGED <<initialized, window_created, surface_set, handleVars, needs_resize,
                   api_pc, loop_buf>>
    /\ RaceUnchanged

\* runEventLoop, gui.cpp:890-903: the flag is cleared and the lock given up
runEventLoop_unlock ==
    /\ loop_pc = "resize"
    /\ needs_resize' =
          IF needs_resize /\ window_width > 0 /\ window_height > 0
             /\ window_width <= MaxConfigureDim /\ window_height <= MaxConfigureDim
          THEN FALSE ELSE needs_resize
    /\ resize_mutex' = "free"
    /\ loop_pc' = "commit_check"
    /\ cfg' = NoProposal
    /\ UNCHANGED <<initialized, window_created, surface_set, handleVars, api_pc, loop_buf>>
    /\ RaceUnchanged

\* runEventLoop, gui.cpp:912-913: surface and buffer are tested; due says
\* whether 16 ms have passed since the last commit
runEventLoop_commit_check ==
    /\ loop_pc = "commit_check"
    /\ \E due \in BOOLEAN :
          IF due /\ surface_set /\ buffer # 0
          THEN /\ loop_pc' = "wl_surface_damage"
               /\ loop_buf' = buffer
          ELSE /\ loop_pc' = "top"
               /\ loop_buf' = 0
    /\ cfg' = NoProposal
    /\ UNCHANGED <<initialized, window_created, surface_set, handleVars, needs_resize,
                   api_pc, resize_mutex>>
    /\ RaceUnchanged

\* runEventLoop, gui.cpp:914
runEventLoop_damage ==
    /\ loop_pc = "wl_surface_damage"
    /\ loop_pc' = "wl_surface_commit"
    /\ cfg' = NoProposal
    /\ UNCHANGED <<initialized, window_created, surface_set, handleVars, needs_resize,
                   api_pc, resize_mutex, loop_buf>>
    /\ RaceUnchanged

\* runEventLoop, gui.cpp:915-917
runEventLoop_commit ==
    /\ loop_pc = "wl_surface_commit"
    /\ loop_pc' = "top"
    /\ loop_buf' = 0
    /\ cfg' = NoProposal
    /\ UNCHANGED <<initialized, window_created, surface_set, handleVars, needs_resize,
                   api_pc, resize_mutex>>
    /\ RaceUnchanged

\* runEventLoop, gui.cpp:855 and 921: the display is gone, the loop returns
runEventLoop_return ==
    /\ loop_pc = "top"
    /\ ~initialized
    /\ loop_pc' = "returned"
    /\ cfg' = NoProposal
    /\ UNCHANGED <<initialized, window_created, surface_set, handleVars, needs_resize,
                   api_pc, resize_mutex, loop_buf>>
    /\ RaceUnchanged

\* GUI::shutdown -> destroyWindow -> destroyBuffer, gui.cpp:1380: lock_guard
destroyBuffer_lock ==
    /\ api_pc = "idle"
    /\ initialized /\ window_created
    /\ resize_mutex = "free"
    /\ resize_mutex' = "api"
    /\ api_pc' = "wl_buffer_destroy"
    /\ cfg' = NoProposal
    /\ UNCHANGED <<initialized, window_created, surface_set, handleVars, needs_resize,
                   loop_pc, loop_buf>>
    /\ RaceUnchanged

\* destroyBuffer, gui.cpp:1384-1388
destroyBuffer_step_buffer ==
    /\ api_pc = "wl_buffer_destroy"
    /\ SetHandles(destroyBuffer_buffer(Handles))
    /\ api_pc' = "munmap"
    /\ cfg' = NoProposal
    /\ UNCHANGED <<initialized, window_created, surface_set, needs_resize,
                   loop_pc, resize_mutex, loop_buf>>
    /\ RaceUnchanged

\* destroyBuffer, gui.cpp:1391-1410
destroyBuffer_step_munmap ==
    /\ api_pc = "munmap"
    /\ SetHandles(destroyBuffer_munmap(Handles, window_width, window_height))
    /\ api_pc' = "close"
    /\ cfg' = NoProposal
    /\ UNCHANGED <<initialized, window_created, surface_set, needs_resize,
                   loop_pc, resize_mutex, loop_buf>>
    /\ RaceUnchanged

\* destroyBuffer, gui.cpp:1413-1417
destroyBuffer_step_close ==
    /\ api_pc = "close"
    /\ SetHandles(destroyBuffer_close(Handles))
    /\ api_pc' = "unlock"
    /\ cfg' = NoProposal
    /\ UNCHANGED <<initialized, window_created, surface_set, needs_resize,
                   loop_pc, resize_mutex, loop_buf>>
    /\ RaceUnchanged

\* destroyBuffer returns, gui.cpp:1420: the lock_guard gives the lock up
destroyBuffer_unlock ==
    /\ api_pc = "unlock"
    /\ resize_mutex' = "free"
    /\ api_pc' = "wl_surface_destroy"
    /\ cfg' = NoProposal
    /\ UNCHANGED <<initialized, window_created, surface_set, handleVars, needs_resize,
                   loop_pc, loop_buf>>
    /\ RaceUnchanged

\* destroyWindow after destroyBuffer, gui.cpp:706-730
destroyWindow_surface ==
    /\ api_pc = "wl_surface_destroy"
    /\ surface_set' = FALSE
    /\ window_created' = FALSE
    /\ api_pc' = "cleanupWayland"
    /\ cfg' = NoProposal
    /\ UNCHANGED <<initialized, handleVars, needs_resize, loop_pc, resize_mutex, loop_buf>>
    /\ RaceUnchanged

\* shutdown after destroyWindow, gui.cpp:677-679
shutdown_cleanup ==
    /\ api_pc = "cleanupWayland"
    /\ initialized' = FALSE
    /\ api_pc' = "returned"
    /\ cfg' = NoProposal
    /\ UNCHANGED <<window_created, surface_set, handleVars, needs_resize,
                   loop_pc, resize_mutex, loop_buf>>
    /\ RaceUnchanged

InitBufRace ==
    /\ InitExtVars
    /\ InitProtoVars
    /\ xdg_toplevel_set = TRUE
    /\ targets_set = TRUE
    /\ listener = "gui.cpp"
    /\ \E size \in RaceWindowSizes :
          /\ window_width = size[1]
          /\ window_height = size[2]
          /\ live_maps = {[id |-> 1, size |-> size[1] * 4 * size[2]]}
          /\ live_fds = {[id |-> 1, size |-> size[1] * 4 * size[2]]}
    /\ needs_resize = FALSE
    /\ InitDecodeVars
    /\ InitFrameVars
    /\ initialized = TRUE
    /\ window_created = TRUE
    /\ shell_kind = "xdg"
    /\ surface_set = TRUE
    /\ buffer = 1
    /\ shm_data = 1
    /\ shm_fd = 1
    /\ live_bufs = {1}
    /\ n_created = 1
    /\ n_destroyed = 0
    /\ last_unmap = NoUnmap
    /\ time_since_last = RateLimitMs + 1
    /\ cfg = NoProposal
    /\ api_pc = "idle"
    /\ loop_pc = "top"
    /\ resize_mutex = "free"
    /\ loop_buf = 0

NextBufRace ==
    \/ runEventLoop_dispatch
    \/ Tick
    \/ runEventLoop_try_lock
    \/ runEventLoop_unlock
    \/ runEventLoop_commit_check
    \/ runEventLoop_damage
    \/ runEventLoop_commit
    \/ runEventLoop_return
    \/ destroyBuffer_lock
    \/ destroyBuffer_step_buffer
    \/ destroyBuffer_step_munmap
    \/ destroyBuffer_step_close
    \/ destroyBuffer_unlock
    \/ destroyWindow_surface
    \/ shutdown_cleanup

SpecBufRace == InitBufRace /\ [][NextBufRace]_vars

(***************************************************************************)
(* gui.cpp: the GUI interface against a server that advertises any subset  *)
(* of the four globals the window needs.  globals is what the registry     *)
(* announces; bound is what GUI::Impl holds after initWayland copied it.   *)
(* A call is one step; gui_ret keeps the last call and its result, with    *)
(* "crashed" for a call that passes a null proxy to the protocol library.  *)
(***************************************************************************)
GlobalSets == [compositor : BOOLEAN, shm : BOOLEAN, xdg_wm_base : BOOLEAN, shell : BOOLEAN]
GlobalWindowSizes == {<<1920, 1080>>, <<9000, 600>>}

Returned(op, value) == [op |-> op, value |-> value]
Running == gui_ret.value # "crashed"

GlobalsUnchanged ==
    UNCHANGED <<globals, shell_kind, time_since_last, cfg, needs_resize,
                mouse_over, input_active, is_resizing, resize_edge, last_mouse_x,
                last_mouse_y, current_modifiers, targets_set,
                serialVars, threadVars, callVars, decodeVars,
                current_frame, frame_width, frame_height, frame_mutex, writer_pc,
                writer_frame, reader_pc, reader_view, last_valid, raceVars, normVars,
                renderVars, gpuVars, tmVars, elVars, keyVars, evVars, wkVars, cnVars, dispVars, srvVars>>

\* GUI::Impl::initWayland: connect, take the globals of the registry, load
\* the cursor, test compositor and shm
initWayland(connect_ok, cursor_ok) ==
    IF ~connect_ok
    THEN [value |-> "false", bound |-> [bound EXCEPT !.display = FALSE]]
    ELSE LET got == [display |-> TRUE, compositor |-> globals.compositor,
                     shm |-> globals.shm, xdg_wm_base |-> globals.xdg_wm_base,
                     shell |-> globals.shell]
         IN IF got.shm /\ cursor_ok /\ ~got.compositor
            THEN [value |-> "crashed", bound |-> got]
            ELSE IF ~got.compositor \/ ~got.shm
            THEN [value |-> "false", bound |-> got]
            ELSE [value |-> "true", bound |-> got]

\* GUI::initialize
GUI_initialize ==
    /\ Running
    /\ \E connect_ok \in BOOLEAN, cursor_ok \in BOOLEAN :
          LET r == initWayland(connect_ok, cursor_ok)
          IN /\ bound' = r.bound
             /\ initialized' = (r.value = "true")
             /\ gui_ret' = Returned("initialize", r.value)
    /\ UNCHANGED <<window_created, surface_set, handleVars, window_width, window_height,
                   xdg_toplevel_set, has_new_frame>>
    /\ GlobalsUnchanged

\* GUI::Impl::createWaylandWindow for a window of width x height: the result
\* with the handles, the surface, the toplevel and the created flag
createWaylandWindow(width, height, outcome) ==
    LET r == createBuffer(Handles, width, height, outcome, n_created + 1, width, height)
        valid == width > 0 /\ height > 0 /\ width <= MaxBufferDim /\ height <= MaxBufferDim
        at_pool == valid /\ outcome \in {"pool_fail", "buffer_fail", "ok"}
        size == (width * 4) * height
        mapped == [Handles EXCEPT !.shm_fd = n_created + 1, !.shm_data = n_created + 1,
                       !.fds = @ \cup {[id |-> n_created + 1, size |-> size]},
                       !.maps = @ \cup {[id |-> n_created + 1, size |-> size]}]
        same == [value |-> "false", h |-> Handles, surface |-> surface_set,
                 toplevel |-> xdg_toplevel_set, created |-> window_created]
    IN IF ~bound.compositor THEN same
       ELSE IF bound.xdg_wm_base
       THEN IF at_pool /\ ~bound.shm
            THEN [same EXCEPT !.value = "crashed", !.h = mapped, !.surface = TRUE,
                              !.toplevel = TRUE]
            ELSE IF r.ok
            THEN [value |-> "true", h |-> r.h, surface |-> TRUE, toplevel |-> TRUE,
                  created |-> TRUE]
            ELSE [same EXCEPT !.h = r.h, !.surface = TRUE, !.toplevel = TRUE]
       ELSE IF bound.shell
       THEN [same EXCEPT !.value = "true", !.surface = TRUE, !.created = TRUE]
       ELSE [same EXCEPT !.surface = TRUE]

\* GUI::createWindow(title, width, height)
GUI_createWindow ==
    /\ Running
    /\ n_created < MaxCreates
    /\ \E size \in GlobalWindowSizes, outcome \in CreateOutcomes :
          LET w == createWaylandWindow(size[1], size[2], outcome)
          IN /\ window_width' = size[1]
             /\ window_height' = size[2]
             /\ SetHandles(w.h)
             /\ surface_set' = w.surface
             /\ xdg_toplevel_set' = w.toplevel
             /\ window_created' = w.created
             /\ has_new_frame' =
                   IF w.value = "true" /\ bound.xdg_wm_base /\ has_new_frame
                      /\ current_frame.size # 0 /\ frame_width > 0 /\ frame_height > 0
                   THEN FALSE ELSE has_new_frame
             /\ gui_ret' = Returned("createWindow", w.value)
    /\ UNCHANGED <<initialized, bound>>
    /\ GlobalsUnchanged

\* GUI::destroyWindow
GUI_destroyWindow ==
    /\ Running
    /\ IF window_created
       THEN /\ SetHandles(destroyBuffer(Handles, window_width, window_height))
            /\ surface_set' = FALSE
            /\ xdg_toplevel_set' = FALSE
            /\ window_created' = FALSE
       ELSE UNCHANGED <<handleVars, surface_set, xdg_toplevel_set, window_created>>
    /\ gui_ret' = Returned("destroyWindow", "void")
    /\ UNCHANGED <<initialized, bound, window_width, window_height, has_new_frame>>
    /\ GlobalsUnchanged

\* GUI::shutdown: nothing unless initialized; else destroyWindow, then
\* cleanupWayland, which gives up every global and the connection
GUI_shutdown ==
    /\ Running
    /\ IF initialized
       THEN /\ IF window_created
               THEN SetHandles(destroyBuffer(Handles, window_width, window_height))
               ELSE UNCHANGED handleVars
            /\ window_created' = FALSE
            /\ xdg_toplevel_set' = FALSE
            /\ surface_set' = IF bound.display THEN FALSE
                              ELSE IF window_created THEN FALSE ELSE surface_set
            /\ bound' = IF bound.display THEN Unbound ELSE bound
            /\ initialized' = FALSE
       ELSE UNCHANGED <<handleVars, window_created, xdg_toplevel_set, surface_set, bound,
                        initialized>>
    /\ gui_ret' = Returned("shutdown", "void")
    /\ UNCHANGED <<window_width, window_height, has_new_frame>>
    /\ GlobalsUnchanged

InitGlobals ==
    /\ InitProtoVars
    /\ xdg_toplevel_set = FALSE
    /\ targets_set = TRUE
    /\ listener = "gui.cpp"
    /\ InitWinVars
    /\ InitDecodeVars
    /\ InitFrameVars
    /\ InitBufVars
    /\ shell_kind = "xdg"
    /\ InitDispVars
    /\ InitSrvVars
    /\ InitCnVars
    /\ InitWkVars
    /\ InitEvVars
    /\ InitKeyVars
    /\ InitElVars
    /\ InitTmVars
    /\ InitGpuVars
    /\ globals \in GlobalSets
    /\ InitNormVars
    /\ InitRenderVars
    /\ bound = Unbound
    /\ gui_ret = NoReturn

NextGlobals ==
    \/ GUI_initialize
    \/ GUI_createWindow
    \/ GUI_destroyWindow
    \/ GUI_shutdown

SpecGlobals == InitGlobals /\ [][NextGlobals]_vars

\* what C12 calls a required server object that is not advertised
MissingGlobal ==
    \/ ~globals.compositor
    \/ ~globals.shm
    \/ (~globals.xdg_wm_base /\ ~globals.shell)

\* C12: with the surface factory, the shared-memory allocator or both shell
\* roles not advertised, createWindow returns false and window_created is
\* false afterwards, whatever was called before.
C12_NoWindowWithoutGlobals ==
    (gui_ret.op = "createWindow" /\ MissingGlobal) =>
        (gui_ret.value = "false" /\ ~window_created)

(***************************************************************************)
(* gui_input.cpp: normalizeMouseCoordinates on its own, for windows down   *)
(* to one pixel and positions inside and outside the window.               *)
(***************************************************************************)
NormWidths == {1, 2, 3, 800, 1920}
NormHeights == {1, 2, 600, 1080}
NormXs == {-5, 0, 1, 2, 400, 799, 1919, 5000}
NormYs == {-5, 0, 1, 300, 599, 1079, 5000}
NormArgs == [x : NormXs, y : NormYs, window_width : NormWidths, window_height : NormHeights]

NormUnchanged ==
    UNCHANGED <<protoVars, winVars, decodeVars, frameVars, bufVars, raceVars, globalVars,
                renderVars, gpuVars, tmVars, elVars, keyVars, evVars, wkVars, cnVars, dispVars, srvVars>>

\* the call returns
normalizeMouseCoordinates_return ==
    /\ norm_ret = NoNormRet
    /\ \E cx \in NormalizeAxisOutcomes(norm_args.x, norm_args.window_width),
          cy \in NormalizeAxisOutcomes(norm_args.y, norm_args.window_height) :
          norm_ret' = <<cx, cy>>
    /\ UNCHANGED norm_args
    /\ NormUnchanged

InitNormalize ==
    /\ InitProtoVars
    /\ xdg_toplevel_set = FALSE
    /\ targets_set = TRUE
    /\ listener = "gui.cpp"
    /\ InitWinVars
    /\ InitDecodeVars
    /\ InitFrameVars
    /\ InitBufVars
    /\ shell_kind = "xdg"
    /\ InitDispVars
    /\ InitSrvVars
    /\ InitCnVars
    /\ InitWkVars
    /\ InitEvVars
    /\ InitKeyVars
    /\ InitElVars
    /\ InitTmVars
    /\ InitGpuVars
    /\ InitGlobalVars
    /\ InitRenderVars
    /\ norm_args \in NormArgs
    /\ norm_ret = NoNormRet

NextNormalize ==
    \/ normalizeMouseCoordinates_return

SpecNormalize == InitNormalize /\ [][NextNormalize]_vars

NormInRange ==
    /\ norm_ret[1] >= 0 /\ norm_ret[1] <= 4095
    /\ norm_ret[2] >= 0 /\ norm_ret[2] <= 4095

NormCorners ==
    /\ (norm_args.x = 0 /\ norm_args.y = 0) => norm_ret = <<0, 0>>
    /\ (norm_args.x = norm_args.window_width - 1
        /\ norm_args.y = norm_args.window_height - 1) => norm_ret = <<4095, 4095>>

\* C13 as stated: for every positive width and height, (0,0) maps to (0,0)
\* and (width-1, height-1) to (4095,4095), and every position maps into
\* 0..4095 on both axes.
C13_CornersAnySize ==
    norm_ret # NoNormRet => (NormCorners /\ NormInRange)

(***************************************************************************)
(* gui_video.cpp: renderVideoToBuffer.  The frame data is a byte string    *)
(* whose byte i is FrameByte(seed, i); a destination pixel is the four     *)
(* bytes <<A, R, G, B>> of its XRGB8888 word, most significant first.  The *)
(* destination holds StalePixel everywhere before the call.                *)
(***************************************************************************)
FrameWidths == {1, 2, 3}
FrameHeights == {1, 2}
BufferWidths == {1, 2, 3, 4}
BufferHeights == {1, 2, 3}
Seeds == {0, 200}
StalePixel == <<1, 2, 3, 4>>
ZeroPixel == <<0, 0, 0, 0>>

RenderArgs ==
    UNION {
      { [width |-> fw, height |-> fh, is_rgb |-> rgb, data_len |-> n, seed |-> sd,
         buffer_width |-> bw, buffer_height |-> bh] :
            rgb \in BOOLEAN, n \in {fw * fh * 3, fw * fh * 3 - 3}, sd \in Seeds,
            bw \in BufferWidths, bh \in BufferHeights }
      : fw \in FrameWidths, fh \in FrameHeights }

FrameByte(seed, i) == (seed + 7 * i) % 256

\* the early returns, gui_video.cpp:43-55
renderVideoToBuffer_valid(a) ==
    /\ a.buffer_width > 0 /\ a.buffer_height > 0
    /\ a.is_rgb /\ a.data_len # 0 /\ a.width > 0 /\ a.height > 0
    /\ a.data_len = a.width * a.height * 3

\* the fast path is taken for equal sizes (the scale factors are then 1.0)
renderVideoToBuffer_fast(a) ==
    a.width = a.buffer_width /\ a.height = a.buffer_height

\* src_x_map[x] and src_y: the source index of destination index i
src_index_mutant(i, src_extent, dst_extent) == i
src_index(i, src_extent, dst_extent) == (i * src_extent) \div dst_extent

\* the word written for the source pixel whose first byte is at offset
PackPixel(seed, offset) ==
    <<255, FrameByte(seed, offset), FrameByte(seed, offset + 1), FrameByte(seed, offset + 2)>>

RenderUnchanged ==
    UNCHANGED <<protoVars, winVars, decodeVars, frameVars, bufVars, raceVars, globalVars,
                normVars, gpuVars, tmVars, elVars, keyVars, evVars, wkVars, cnVars, dispVars, srvVars>>

\* entry: the tests, then memset
renderVideoToBuffer_call ==
    /\ rv_pc = "idle"
    /\ \E a \in RenderArgs :
          /\ rv_args' = a
          /\ IF renderVideoToBuffer_valid(a)
             THEN /\ rv_pixels' = [i \in 1..(a.buffer_width * a.buffer_height) |-> ZeroPixel]
                  /\ rv_pc' = IF renderVideoToBuffer_fast(a) THEN "copy" ELSE "scale"
             ELSE /\ rv_pixels' = [i \in 1..(a.buffer_width * a.buffer_height) |-> StalePixel]
                  /\ rv_pc' = "returned"
    /\ rv_y' = 0
    /\ rv_oob' = FALSE
    /\ RenderUnchanged

\* one row of the 1:1 copy, gui_video.cpp:72-80
renderVideoToBuffer_copy_row ==
    /\ rv_pc = "copy"
    /\ rv_y < rv_args.height
    /\ LET a == rv_args
           offset(x) == rv_y * a.width * 3 + x * 3
       IN /\ rv_pixels' = [i \in DOMAIN rv_pixels |->
                IF (i - 1) \div a.buffer_width = rv_y /\ (i - 1) % a.buffer_width < a.width
                THEN PackPixel(a.seed, offset((i - 1) % a.buffer_width))
                ELSE rv_pixels[i]]
          /\ rv_oob' = (rv_oob \/ \E x \in 0..(a.width - 1) : offset(x) + 2 >= a.data_len)
    /\ rv_y' = rv_y + 1
    /\ UNCHANGED <<rv_args, rv_pc>>
    /\ RenderUnchanged

\* one row of the scaling loop, gui_video.cpp:94-118
renderVideoToBuffer_scale_row ==
    /\ rv_pc = "scale"
    /\ rv_y < rv_args.buffer_height
    /\ LET a == rv_args
           src_y == src_index(rv_y, a.height, a.buffer_height)
           src_x(x) == src_index(x, a.width, a.buffer_width)
           offset(x) == src_y * a.width * 3 + src_x(x) * 3
           written(x) == src_y < a.height /\ src_x(x) < a.width
       IN /\ rv_pixels' = [i \in DOMAIN rv_pixels |->
                IF (i - 1) \div a.buffer_width = rv_y /\ written((i - 1) % a.buffer_width)
                THEN PackPixel(a.seed, offset((i - 1) % a.buffer_width))
                ELSE rv_pixels[i]]
          /\ rv_oob' = (rv_oob \/ \E x \in 0..(a.buffer_width - 1) :
                                      written(x) /\ offset(x) + 2 >= a.data_len)
    /\ rv_y' = rv_y + 1
    /\ UNCHANGED <<rv_args, rv_pc>>
    /\ RenderUnchanged

\* the loops are through
renderVideoToBuffer_return ==
    /\ \/ rv_pc = "copy" /\ rv_y = rv_args.height
       \/ rv_pc = "scale" /\ rv_y = rv_args.buffer_height
    /\ rv_pc' = "returned"
    /\ UNCHANGED <<rv_args, rv_pixels, rv_y, rv_oob>>
    /\ RenderUnchanged

InitRender ==
    /\ InitProtoVars
    /\ xdg_toplevel_set = FALSE
    /\ targets_set = TRUE
    /\ listener = "gui.cpp"
    /\ InitWinVars
    /\ InitDecodeVars
    /\ InitFrameVars
    /\ InitBufVars
    /\ shell_kind = "xdg"
    /\ InitDispVars
    /\ InitSrvVars
    /\ InitCnVars
    /\ InitWkVars
    /\ InitEvVars
    /\ InitKeyVars
    /\ InitElVars
    /\ InitTmVars
    /\ InitGpuVars
    /\ InitGlobalVars
    /\ InitNormVars
    /\ InitRenderVars

NextRender ==
    \/ renderVideoToBuffer_call
    \/ renderVideoToBuffer_copy_row
    \/ renderVideoToBuffer_scale_row
    \/ renderVideoToBuffer_return

SpecRender == InitRender /\ [][NextRender]_vars

\* C14: after renderVideoToBuffer has returned for a valid RGB frame and a
\* destination of positive size, every destination pixel (x, y) holds 0xFF,
\* R, G, B of the source pixel (x*fw div bw, y*fh div bh), none is left
\* unwritten, and no byte outside the frame data was read; for equal sizes
\* that is the 1:1 copy.
C14_NearestNeighbourFill ==
    (rv_pc = "returned" /\ rv_args.is_rgb /\ rv_args.data_len = rv_args.width * rv_args.height * 3) =>
        /\ ~rv_oob
        /\ \A x \in 0..(rv_args.buffer_width - 1), y \in 0..(rv_args.buffer_height - 1) :
              LET sx == (x * rv_args.width) \div rv_args.buffer_width
                  sy == (y * rv_args.height) \div rv_args.buffer_height
                  first == (sy * rv_args.width + sx) * 3
              IN /\ sx < rv_args.width /\ sy < rv_args.height
                 /\ rv_pixels[y * rv_args.buffer_width + x + 1] =
                       <<255, (rv_args.seed + 7 * first) % 256,
                         (rv_args.seed + 7 * (first + 1)) % 256,
                         (rv_args.seed + 7 * (first + 2)) % 256>>
                 /\ (rv_args.width = rv_args.buffer_width
                     /\ rv_args.height = rv_args.buffer_height) => (sx = x /\ sy = y)

C14_Witness ==
    /\ rv_pc = "returned"
    /\ rv_args.is_rgb /\ rv_args.data_len = rv_args.width * rv_args.height * 3
    /\ rv_args.width = 3 /\ rv_args.height = 2
    /\ rv_args.buffer_width = 4 /\ rv_args.buffer_height = 3
    /\ rv_pixels[12] = <<255, FrameByte(rv_args.seed, 15), FrameByte(rv_args.seed, 16),
                         FrameByte(rv_args.seed, 17)>>

(***************************************************************************)
(* GPUVideoRenderer (gpu_video_renderer.cpp): the EGL context, the thread  *)
(* it is current on, and the frames drawn with it.                         *)
(***************************************************************************)
MaxContexts == 2
MaxClaims == 2
\* VideoFrame as renderFrame looks at it: is_rgb and data.empty()
GpuFrames == [is_rgb : BOOLEAN, empty : BOOLEAN]
\* where setupEGL stops: before eglCreateContext, at eglCreateContext, at its
\* eglMakeCurrent, or not at all
SetupOutcomes == {"fails early", "eglCreateContext fails", "eglMakeCurrent fails", "ok"}
\* where initializeInCurrentThread stops after its two flag tests
InThreadOutcomes == {"eglMakeCurrent fails", "createShaders fails", "ok"}

GpuUnchanged ==
    UNCHANGED <<protoVars, winVars, decodeVars, frameVars, bufVars, raceVars, globalVars,
                normVars, renderVars, tmVars, elVars, keyVars, evVars, wkVars, cnVars, dispVars, srvVars>>

\* eglMakeCurrent(display, surface, surface, ctx) called by thread t can succeed
\* only for a context that is current on no other thread
eglMakeCurrent_possible(t, ctx) ==
    /\ ctx # NoContext
    /\ \A u \in GpuThreads \ {t} : current_on[u] # ctx

\* GPUVideoRenderer::initialize with setupEGL inlined
GPU_initialize(t, outcome) ==
    /\ outcome # "fails early" => gpu_hist.contexts < MaxContexts
    /\ LET ctx == gpu_hist.contexts + 1 IN
       CASE outcome = "fails early" ->
              /\ gpu' = [gpu EXCEPT !.egl_display = TRUE]
              /\ UNCHANGED <<current_on, gpu_hist>>
         [] outcome = "eglCreateContext fails" ->
              /\ gpu' = [gpu EXCEPT !.egl_display = TRUE, !.egl_context = NoContext]
              /\ UNCHANGED <<current_on, gpu_hist>>
         [] outcome = "eglMakeCurrent fails" ->
              /\ gpu' = [gpu EXCEPT !.egl_display = TRUE, !.egl_context = ctx]
              /\ gpu_hist' = [gpu_hist EXCEPT !.contexts = ctx]
              /\ UNCHANGED current_on
         [] OTHER ->
              \* made current to read GL_RENDERER, then released
              /\ gpu' = [gpu EXCEPT !.egl_display = TRUE, !.egl_context = ctx,
                                    !.initialized = TRUE]
              /\ current_on' = [current_on EXCEPT ![t] = NoContext]
              /\ gpu_hist' = [gpu_hist EXCEPT !.contexts = ctx, !.initialize_ok = TRUE]
    /\ gpu_ret' = [op |-> "initialize", thread |-> t, value |-> (outcome = "ok"),
                   gl |-> (outcome = "ok"), frame |-> NoGpuFrame]
    /\ GpuUnchanged

\* GPUVideoRenderer::initializeInCurrentThread
GPU_initializeInCurrentThread(t, outcome) ==
    /\ IF ~gpu.initialized \/ gpu.context_created
       THEN /\ gpu_ret' = [op |-> "initializeInCurrentThread", thread |-> t,
                           value |-> gpu.context_created, gl |-> FALSE,
                           frame |-> NoGpuFrame]
            /\ UNCHANGED <<gpu, current_on, gpu_hist>>
       ELSE IF outcome = "eglMakeCurrent fails" \/ ~eglMakeCurrent_possible(t, gpu.egl_context)
       THEN /\ gpu_ret' = [op |-> "initializeInCurrentThread", thread |-> t,
                           value |-> FALSE, gl |-> TRUE, frame |-> NoGpuFrame]
            /\ UNCHANGED <<gpu, current_on, gpu_hist>>
       ELSE /\ gpu_hist.claims < MaxClaims
            /\ current_on' = [current_on EXCEPT ![t] = gpu.egl_context]
            \* shader_program, vbo and texture are all made on the way to "ok"
            /\ gpu' = [gpu EXCEPT !.context_created = (outcome = "ok"),
                                  !.gl_objects = (outcome = "ok")]
            /\ gpu_hist' = [gpu_hist EXCEPT !.claims = @ + 1, !.claimer = t,
                                            !.in_thread_ok = @ \/ (outcome = "ok")]
            /\ gpu_ret' = [op |-> "initializeInCurrentThread", thread |-> t,
                           value |-> (outcome = "ok"), gl |-> TRUE, frame |-> NoGpuFrame]
    /\ GpuUnchanged

\* the first test of renderFrame on the renderer's own flags
renderFrame_ready_mutant(g) == g.initialized
renderFrame_ready(g) == g.initialized /\ g.context_created

\* GPUVideoRenderer::renderFrame; swapped is what eglSwapBuffers returns
GPU_renderFrame(t, frame, swapped) ==
    /\ IF ~renderFrame_ready(gpu) \/ ~frame.is_rgb \/ frame.empty
       THEN gpu_ret' = [op |-> "renderFrame", thread |-> t, value |-> FALSE, gl |-> FALSE,
                        frame |-> frame]
       ELSE gpu_ret' = [op |-> "renderFrame", thread |-> t, value |-> swapped, gl |-> TRUE,
                        frame |-> frame]
    /\ UNCHANGED <<gpu, current_on, gpu_hist>>
    /\ GpuUnchanged

\* GPUVideoRenderer::cleanup: releases on the calling thread, destroys, and
\* clears initialized; context_created is left as it is
GPU_cleanup(t) ==
    /\ IF gpu.egl_display
       THEN /\ current_on' = [current_on EXCEPT ![t] = NoContext]
            /\ gpu' = [gpu EXCEPT !.egl_display = FALSE, !.egl_context = NoContext,
                                  !.gl_objects = FALSE, !.initialized = FALSE]
       ELSE /\ gpu' = [gpu EXCEPT !.initialized = FALSE]
            /\ UNCHANGED current_on
    /\ gpu_ret' = [op |-> "cleanup", thread |-> t, value |-> TRUE, gl |-> gpu.egl_display,
                   frame |-> NoGpuFrame]
    /\ UNCHANGED gpu_hist
    /\ GpuUnchanged

InitGpu ==
    /\ InitProtoVars
    /\ xdg_toplevel_set = FALSE
    /\ targets_set = TRUE
    /\ listener = "gui.cpp"
    /\ InitWinVars
    /\ InitDecodeVars
    /\ InitFrameVars
    /\ InitBufVars
    /\ shell_kind = "xdg"
    /\ InitDispVars
    /\ InitSrvVars
    /\ InitCnVars
    /\ InitWkVars
    /\ InitEvVars
    /\ InitKeyVars
    /\ InitElVars
    /\ InitTmVars
    /\ InitGlobalVars
    /\ InitNormVars
    /\ InitRenderVars
    /\ InitGpuVars

NextGpu ==
    \/ \E t \in GpuThreads, outcome \in SetupOutcomes : GPU_initialize(t, outcome)
    \/ \E t \in GpuThreads, outcome \in InThreadOutcomes :
          GPU_initializeInCurrentThread(t, outcome)
    \/ \E t \in GpuThreads, frame \in GpuFrames, swapped \in BOOLEAN :
          GPU_renderFrame(t, frame, swapped)
    \/ \E t \in GpuThreads : GPU_cleanup(t)

SpecGpu == InitGpu /\ [][NextGpu]_vars

\* C15: a renderFrame call made before both initialize and
\* initializeInCurrentThread have succeeded returns false and issues no GL or
\* EGL call.
C15_NoDrawUnlessBothSucceeded ==
    (gpu_ret.op = "renderFrame" /\ ~(gpu_hist.initialize_ok /\ gpu_hist.in_thread_ok))
        => (~gpu_ret.value /\ ~gpu_ret.gl)

\* initialize has succeeded, initializeInCurrentThread has failed in
\* createShaders, and a usable frame was handed to renderFrame
C15_Witness ==
    /\ gpu_ret.op = "renderFrame"
    /\ gpu_ret.frame = [is_rgb |-> TRUE, empty |-> FALSE]
    /\ gpu_hist.initialize_ok /\ ~gpu_hist.in_thread_ok /\ gpu_hist.claims = 1
    /\ gpu.initialized
    /\ ~gpu_ret.value /\ ~gpu_ret.gl

\* C16: a context is current on at most one thread; when initialize returns
\* true its context is current on no thread; over any call sequence the
\* context is claimed once; and every drawing renderFrame runs on the thread
\* that claimed the context.
C16_ContextOnOneThread ==
    /\ \A t, u \in GpuThreads :
          (current_on[t] # NoContext /\ current_on[t] = current_on[u]) => t = u
    /\ (gpu_ret.op = "initialize" /\ gpu_ret.value)
          => \A t \in GpuThreads : current_on[t] # gpu.egl_context
    /\ gpu_hist.claims <= 1
    /\ (gpu_ret.op = "renderFrame" /\ gpu_ret.gl) => gpu_ret.thread = gpu_hist.claimer

(***************************************************************************)
(* ThreadManager (gui_threading.cpp): one owner thread starts and stops    *)
(* the three workers and destroys the manager; a worker's function may     *)
(* return at any time.                                                     *)
(***************************************************************************)
MaxStarts == 2
\* ~ThreadManager calls the three stop functions in this order
DestructorOrder == <<"wayland", "render", "input">>

TmQuiet ==
    UNCHANGED <<protoVars, winVars, decodeVars, frameVars, bufVars, raceVars, globalVars,
                normVars, renderVars, gpuVars, elVars, keyVars, evVars, cnVars, dispVars, srvVars>>

TmUnchanged ==
    /\ TmQuiet
    /\ UNCHANGED wkVars

\* the first line of startX: return when the flag is set
startX_returns_mutant(running) == FALSE
startX_returns(running) == running

\* startWaylandEventThread / startRenderThread / startInputThread
startX(w) ==
    /\ tm_pc.in = "idle" /\ ~tm_destroyed
    /\ tm_last' = [op |-> "start", w |-> w, was_running |-> tm_running[w],
                   thread_before |-> tm_thread[w], started_before |-> tm_started[w]]
    /\ IF startX_returns(tm_running[w])
       THEN UNCHANGED <<tm_running, tm_thread, tm_done, tm_started, tm_live>>
       ELSE /\ tm_started[w] < MaxStarts
            /\ tm_running' = [tm_running EXCEPT ![w] = TRUE]
            /\ tm_started' = [tm_started EXCEPT ![w] = @ + 1]
            /\ tm_thread' = [tm_thread EXCEPT ![w] = tm_started[w] + 1]
            /\ tm_live' = [tm_live EXCEPT ![w] = @ \cup {tm_started[w] + 1}]
            /\ tm_done' = [tm_done EXCEPT ![w] = FALSE]
    /\ UNCHANGED <<tm_pc, tm_joins, tm_destroyed>>
    /\ TmUnchanged

\* the function a worker thread runs returns
worker_return(w) ==
    /\ tm_thread[w] # NoThread /\ ~tm_done[w]
    /\ tm_done' = [tm_done EXCEPT ![w] = TRUE]
    /\ UNCHANGED <<tm_running, tm_thread, tm_started, tm_live, tm_pc, tm_last, tm_joins,
                   tm_destroyed>>
    /\ TmUnchanged

\* the value stopX stores in the worker's flag before it joins
stopX_flag_mutant(running) == running
stopX_flag(running) == FALSE

\* stopX up to its join: the flag test, the flag store, notify_all, joinable()
stopX_enter(w) ==
    /\ tm_pc.in = "idle" /\ ~tm_destroyed
    /\ IF ~tm_running[w]
       THEN /\ tm_last' = [op |-> "stop", w |-> w, was_running |-> FALSE,
                           thread_before |-> tm_thread[w], started_before |-> tm_started[w]]
            /\ UNCHANGED <<tm_running, tm_pc>>
       ELSE /\ tm_running' = [tm_running EXCEPT ![w] = stopX_flag(tm_running[w])]
            /\ tm_last' = [op |-> "stopping", w |-> w, was_running |-> TRUE,
                           thread_before |-> tm_thread[w], started_before |-> tm_started[w]]
            /\ tm_pc' = [in |-> "stop", w |-> w, stage |-> 0,
                         waiting |-> tm_thread[w] # NoThread]
    /\ UNCHANGED <<tm_thread, tm_done, tm_started, tm_live, tm_joins, tm_destroyed>>
    /\ TmQuiet

stopX_call(w) ==
    /\ stopX_enter(w)
    /\ UNCHANGED wkVars

\* join() returns once the worker's function has returned; stopX returns
stopX_return(w) ==
    /\ tm_pc.in = "stop" /\ tm_pc.w = w
    /\ tm_pc.waiting => tm_done[w]
    /\ tm_thread' = [tm_thread EXCEPT ![w] = NoThread]
    /\ tm_live' = [tm_live EXCEPT ![w] = @ \ {tm_thread[w]}]
    /\ tm_last' = [tm_last EXCEPT !.op = "stop"]
    /\ tm_pc' = TmIdle
    /\ UNCHANGED <<tm_running, tm_done, tm_started, tm_joins, tm_destroyed>>
    /\ TmUnchanged

\* ~ThreadManager is entered
destructor_call ==
    /\ tm_pc.in = "idle" /\ ~tm_destroyed
    /\ tm_pc' = [in |-> "destructor", w |-> "none", stage |-> 1, waiting |-> FALSE]
    /\ tm_last' = [NoTmCall EXCEPT !.op = "destructor"]
    /\ UNCHANGED <<tm_running, tm_thread, tm_done, tm_started, tm_live, tm_joins,
                   tm_destroyed>>
    /\ TmUnchanged

\* the destructor's next stop call, up to its join
destructor_stop ==
    /\ tm_pc.in = "destructor" /\ ~tm_pc.waiting /\ tm_pc.stage <= Len(DestructorOrder)
    /\ LET w == DestructorOrder[tm_pc.stage] IN
       IF ~tm_running[w]
       THEN /\ tm_pc' = [tm_pc EXCEPT !.stage = @ + 1]
            /\ UNCHANGED tm_running
       ELSE /\ tm_running' = [tm_running EXCEPT ![w] = FALSE]
            /\ tm_pc' = IF tm_thread[w] # NoThread
                        THEN [tm_pc EXCEPT !.w = w, !.waiting = TRUE]
                        ELSE [tm_pc EXCEPT !.stage = @ + 1]
    /\ UNCHANGED <<tm_thread, tm_done, tm_started, tm_live, tm_last, tm_joins, tm_destroyed>>
    /\ TmUnchanged

\* the join of the destructor's current stop call returns
destructor_join ==
    /\ tm_pc.in = "destructor" /\ tm_pc.waiting
    /\ tm_done[tm_pc.w]
    /\ tm_thread' = [tm_thread EXCEPT ![tm_pc.w] = NoThread]
    /\ tm_live' = [tm_live EXCEPT ![tm_pc.w] = @ \ {tm_thread[tm_pc.w]}]
    /\ tm_joins' = Append(tm_joins, tm_pc.w)
    /\ tm_pc' = [tm_pc EXCEPT !.w = "none", !.waiting = FALSE, !.stage = @ + 1]
    /\ UNCHANGED <<tm_running, tm_done, tm_started, tm_last, tm_destroyed>>
    /\ TmUnchanged

\* the destructor returns
destructor_return ==
    /\ tm_pc.in = "destructor" /\ tm_pc.stage > Len(DestructorOrder)
    /\ tm_destroyed' = TRUE
    /\ tm_pc' = TmIdle
    /\ UNCHANGED <<tm_running, tm_thread, tm_done, tm_started, tm_live, tm_last, tm_joins>>
    /\ TmUnchanged

InitThreads ==
    /\ InitProtoVars
    /\ xdg_toplevel_set = FALSE
    /\ targets_set = TRUE
    /\ listener = "gui.cpp"
    /\ InitWinVars
    /\ InitDecodeVars
    /\ InitFrameVars
    /\ InitBufVars
    /\ shell_kind = "xdg"
    /\ InitDispVars
    /\ InitSrvVars
    /\ InitCnVars
    /\ InitWkVars
    /\ InitEvVars
    /\ InitKeyVars
    /\ InitElVars
    /\ InitGlobalVars
    /\ InitNormVars
    /\ InitRenderVars
    /\ InitGpuVars
    /\ InitTmVars

NextThreads ==
    \/ \E w \in Workers : startX(w)
    \/ \E w \in Workers : worker_return(w)
    \/ \E w \in Workers : stopX_call(w)
    \/ \E w \in Workers : stopX_return(w)
    \/ destructor_call
    \/ destructor_stop
    \/ destructor_join
    \/ destructor_return

SpecThreads == InitThreads /\ [][NextThreads]_vars

\* C17: for each worker, a start while it is running changes nothing and
\* creates no second thread; a stop while it is not running changes nothing;
\* when a stop has returned the worker's thread is joined and its flag is
\* false; a start while it is not running launches a fresh thread.
C17_StartStopIdempotent ==
    /\ \A w \in Workers : Cardinality(tm_live[w]) <= 1
    /\ (tm_last.op = "start" /\ tm_last.was_running) =>
          /\ tm_started[tm_last.w] = tm_last.started_before
          /\ tm_thread[tm_last.w] = tm_last.thread_before
          /\ tm_running[tm_last.w]
    /\ (tm_last.op = "stop" /\ ~tm_last.was_running) =>
          /\ tm_thread[tm_last.w] = tm_last.thread_before
          /\ tm_started[tm_last.w] = tm_last.started_before
    /\ tm_last.op = "stop" =>
          /\ tm_live[tm_last.w] = {}
          /\ tm_thread[tm_last.w] = NoThread
          /\ ~tm_running[tm_last.w]
    /\ (tm_last.op = "start" /\ ~tm_last.was_running) =>
          /\ tm_running[tm_last.w]
          /\ tm_thread[tm_last.w] = tm_last.started_before + 1
          /\ tm_live[tm_last.w] = {tm_last.started_before + 1}

\* a worker was started, stopped and joined, and started again
C17_Witness ==
    /\ tm_last.op = "start" /\ ~tm_last.was_running
    /\ tm_last.started_before = 1
    /\ tm_thread[tm_last.w] = 2 /\ tm_live[tm_last.w] = {2}

\* C18: the destructor joins the workers in the order input, protocol-event
\* (wayland), render, so that the render thread is joined last.
C18_InputProtocolRender ==
    LET Rank(w) == CASE w = "input" -> 1 [] w = "wayland" -> 2 [] OTHER -> 3 IN
    \A i, j \in 1..Len(tm_joins) : i < j => Rank(tm_joins[i]) < Rank(tm_joins[j])

(***************************************************************************)
(* GUI::runEventLoop and GUI::requestExit (gui.cpp): the main thread        *)
(* initializes, creates the window and runs the loop; other threads call   *)
(* requestExit and shutdown.                                               *)
(***************************************************************************)
MaxIterations == 3
\* what one pass of the loop body meets: poll times out, events are read and
\* dispatched, or flush, poll or dispatch fails
IterationOutcomes == {"timeout", "events", "flush error", "poll error", "dispatch error"}
\* what the body can do with a display that cleanupWayland has destroyed
DeadDisplayOutcomes == {"crashed", "flush error", "poll error", "dispatch error"}
\* the size a configure event dispatched by the loop proposes
LoopProposals == {<<800, 600>>, <<5000, 600>>}

LoopUnchanged ==
    UNCHANGED <<globals, shell_kind, time_since_last, cfg,
                mouse_over, input_active, is_resizing, resize_edge, last_mouse_x,
                last_mouse_y, current_modifiers, targets_set,
                serialVars, threadVars, callVars, decodeVars,
                current_frame, frame_width, frame_height, frame_mutex, writer_pc,
                writer_frame, reader_pc, reader_view, last_valid, raceVars, normVars,
                renderVars, gpuVars, tmVars,
                initialized, bound, gui_ret, window_created, surface_set, handleVars,
                xdg_toplevel_set, has_new_frame, keyVars, evVars, wkVars, cnVars, dispVars, srvVars>>

\* the main thread sets the GUI up before it enters the loop
main_initialize == el_pc = "not called" /\ GUI_initialize
main_createWindow == el_pc = "not called" /\ GUI_createWindow

\* GUI::runEventLoop is entered: wl_display_get_fd, the two clocks
runEventLoop_call ==
    /\ el_pc = "not called"
    /\ Running /\ bound.display /\ window_created
    /\ el_pc' = "test"
    /\ UNCHANGED <<exit_requested, el_cause, el_iters, needs_resize, window_width,
                   window_height>>
    /\ LoopUnchanged

\* the loop condition: !exit_requested && display
runEventLoop_continues(exit, display) == ~exit /\ display

runEventLoop_test ==
    /\ el_pc = "test"
    /\ IF runEventLoop_continues(exit_requested, bound.display)
       THEN /\ el_iters < MaxIterations
            /\ el_pc' = "body"
            /\ el_iters' = el_iters + 1
            /\ UNCHANGED el_cause
       ELSE /\ el_pc' = "returned"
            /\ el_cause' = IF exit_requested THEN "exit requested" ELSE "no display"
            /\ UNCHANGED el_iters
    /\ UNCHANGED <<exit_requested, needs_resize, window_width, window_height>>
    /\ LoopUnchanged

\* one pass of the body: dispatch_pending, flush, poll(5 ms), dispatch, the
\* resize test, damage and commit
runEventLoop_iteration(outcome, proposal, resize_due) ==
    /\ el_pc = "body"
    /\ IF ~bound.display
       THEN /\ outcome \in DeadDisplayOutcomes
            /\ el_pc' = IF outcome = "crashed" THEN "crashed" ELSE "returned"
            /\ el_cause' = outcome
            /\ UNCHANGED <<needs_resize, window_width, window_height>>
       ELSE /\ outcome \in IterationOutcomes
            /\ IF outcome \in {"flush error", "poll error", "dispatch error"}
               THEN /\ el_pc' = "returned"
                    /\ el_cause' = outcome
                    /\ UNCHANGED <<needs_resize, window_width, window_height>>
               ELSE LET applied == outcome = "events" /\ configure_valid(proposal[1], proposal[2])
                                   /\ <<window_width, window_height>> # proposal
                        w == IF applied THEN proposal[1] ELSE window_width
                        h == IF applied THEN proposal[2] ELSE window_height
                        pending == needs_resize \/ applied
                    IN /\ el_pc' = "test"
                       /\ window_width' = w
                       /\ window_height' = h
                       /\ needs_resize' =
                             IF pending /\ surface_set /\ resize_due /\ configure_valid(w, h)
                             THEN FALSE ELSE pending
                       /\ UNCHANGED el_cause
    /\ UNCHANGED <<exit_requested, el_iters>>
    /\ LoopUnchanged

\* GUI::requestExit, from any thread at any time
requestExit ==
    /\ ~exit_requested
    /\ exit_requested' = TRUE
    /\ UNCHANGED <<el_pc, el_cause, el_iters, needs_resize, window_width, window_height>>
    /\ LoopUnchanged

\* GUI::shutdown called by another thread, or by the main thread once the
\* loop has returned
any_shutdown == el_pc # "crashed" /\ initialized /\ GUI_shutdown

InitLoop ==
    /\ InitProtoVars
    /\ xdg_toplevel_set = FALSE
    /\ targets_set = TRUE
    /\ listener = "gui.cpp"
    /\ InitWinVars
    /\ InitDecodeVars
    /\ InitFrameVars
    /\ InitBufVars
    /\ shell_kind = "xdg"
    /\ InitDispVars
    /\ InitSrvVars
    /\ InitCnVars
    /\ InitWkVars
    /\ InitEvVars
    /\ InitKeyVars
    /\ InitGlobalVars
    /\ InitNormVars
    /\ InitRenderVars
    /\ InitGpuVars
    /\ InitTmVars
    /\ InitElVars

NextLoop ==
    \/ main_initialize
    \/ main_createWindow
    \/ runEventLoop_call
    \/ runEventLoop_test
    \/ \E outcome \in IterationOutcomes \cup DeadDisplayOutcomes,
          proposal \in LoopProposals, resize_due \in BOOLEAN :
          runEventLoop_iteration(outcome, proposal, resize_due)
    \/ requestExit
    \/ any_shutdown

\* the thread in runEventLoop keeps running: poll returns after 5 ms at most
SpecLoop ==
    /\ InitLoop
    /\ [][NextLoop]_vars
    /\ WF_vars(runEventLoop_test)
    /\ WF_vars(\E outcome \in IterationOutcomes \cup DeadDisplayOutcomes,
                  proposal \in LoopProposals, resize_due \in BOOLEAN :
                  runEventLoop_iteration(outcome, proposal, resize_due))

\* C19: runEventLoop returns only when an exit was requested or the
\* connection reported an error, and once requestExit has been called a
\* running loop returns.
C19_ReturnsOnlyOnExitOrError ==
    /\ [](el_pc = "returned" =>
             el_cause \in {"exit requested", "flush error", "poll error", "dispatch error"})
    /\ [](el_pc # "crashed")
    /\ ((exit_requested /\ el_pc \in {"test", "body"}) ~> (el_pc = "returned"))

(***************************************************************************)
(* The keyboard callbacks alone, with the key of the last event kept.      *)
(***************************************************************************)
\* debug_keyboard_key, remembering which scancode the event carried
debug_keyboard_key_event ==
    \E key \in Keys, pressed \in BOOLEAN :
       /\ keyboard_key(key, pressed)
       /\ key_event' = [key |-> key, tick |-> 1 - key_event.tick]
       /\ UNCHANGED evVars

NextKeys ==
    \/ debug_keyboard_enter
    \/ debug_keyboard_leave
    \/ debug_keyboard_key_event
    \/ debug_keyboard_modifiers
    \/ SerialWriteReturns
    \/ SerialConnect
    \/ SerialDisconnect
    \/ setForwardingEnabled

SpecKeys == InitProto /\ [][NextKeys]_vars

\* C20: a key event whose scancode is not in the table, or whose HID code is
\* a modifier (0xE0..0xE7), makes no sendKeyPress or sendKeyRelease call, the
\* callback returns, and the forwarding state (forwarding enabled, serial
\* connected, focus, hover, modifiers, bytes on the wire) is as before.
KeyIsDropped(key) ==
    linux_keycode_to_hid(key) = 0
        \/ (linux_keycode_to_hid(key) >= 224 /\ linux_keycode_to_hid(key) <= 231)

C20_DroppedKeysNotForwarded ==
    /\ [](serial_call.fn \in {"sendKeyPress", "sendKeyRelease"} =>
             (~KeyIsDropped(key_event.key)
                 /\ serial_call.a = linux_keycode_to_hid(key_event.key)))
    /\ [][(key_event' # key_event /\ KeyIsDropped(key_event'.key)) =>
             /\ serial_call' = NoCall
             /\ proto_pc' = "idle"
             /\ UNCHANGED <<forwarding_enabled, connected, inputVars, wire>>]_vars

\* the modifier key 42 (left shift, HID 0xE1) was pressed while focused, with
\* forwarding enabled and the serial port connected, and nothing was sent
C20_Witness ==
    /\ key_event.key = 42 /\ key_event.tick = 1
    /\ input_active /\ ForwardingReady
    /\ serial_call = NoCall /\ proto_pc = "idle"

\* C21: every forwarded key event, press or release, carries the modifier
\* byte that translates the depressed-modifier mask of the last
\* keyboard-modifiers callback (Shift 1 -> 0x02, Ctrl 4 -> 0x01, Alt 8 -> 0x04,
\* Meta 64 -> 0x08), in the call and in byte 5 of the report on the wire.
C21_ModifierByteInCallAndReport ==
    LET translated == (IF (current_modifiers \div 1) % 2 = 1 THEN 2 ELSE 0)
                      + (IF (current_modifiers \div 4) % 2 = 1 THEN 1 ELSE 0)
                      + (IF (current_modifiers \div 8) % 2 = 1 THEN 4 ELSE 0)
                      + (IF (current_modifiers \div 64) % 2 = 1 THEN 8 ELSE 0)
    IN serial_call.fn \in {"sendKeyPress", "sendKeyRelease"} =>
          (serial_call.b = translated /\ wire[6] = translated)

(***************************************************************************)
(* The pointer-axis callback with the event of the last call kept.         *)
(***************************************************************************)
\* WL_POINTER_AXIS_VERTICAL_SCROLL 0, WL_POINTER_AXIS_HORIZONTAL_SCROLL 1
AxisKinds == {0, 1}

\* debug_pointer_axis, remembering the axis and the value of the event
debug_pointer_axis_event ==
    \E axis \in AxisKinds, value \in AxisValues :
       /\ pointer_axis(axis, value)
       /\ last_event' = [kind |-> "axis", a |-> axis, b |-> value,
                         tick |-> 1 - last_event.tick]
       /\ UNCHANGED <<held, keys_down, keyVars>>

NextAxis ==
    \/ debug_pointer_enter
    \/ debug_pointer_leave
    \/ debug_keyboard_enter
    \/ debug_keyboard_leave
    \/ debug_pointer_axis_event
    \/ SerialWriteReturns
    \/ SerialConnect
    \/ SerialDisconnect
    \/ setForwardingEnabled

SpecAxis == InitProto /\ [][NextAxis]_vars

C23_ResizeDirectionMatchesMask ==
    LET geometric == (IF (resize_edge \div 4) % 2 = 1 THEN 1 ELSE 0)
                     + (IF (resize_edge \div 8) % 2 = 1 THEN 2 ELSE 0)
                     + (IF (resize_edge \div 1) % 2 = 1 THEN 4 ELSE 0)
                     + (IF (resize_edge \div 2) % 2 = 1 THEN 8 ELSE 0)
    IN \A i \in 1..Len(proto_trace) :
          proto_trace[i].op = "xdg_toplevel_resize" =>
             (proto_trace[i].arg # 0 /\ proto_trace[i].arg = geometric)

\* C24: no resize drag is in progress once hover or keyboard focus is lost.
C24_NoDragWithoutHoverAndFocus ==
    is_resizing => (mouse_over /\ input_active)

\* C25: a button press is forwarded to the target only when the pointer is
\* outside the resize border (edge mask 0), whichever button it is.
C25_EdgePressNotForwarded ==
    (serial_call.fn = "sendMouseButton" /\ serial_call.b = 1) => resize_edge = 0

\* C26: once a resize proposal has been applied, the pending flag is cleared
\* only when the attached buffer has the window's width and height: a step
\* that clears needs_resize leaves a buffer whose mapping is exactly
\* width * 4 * height bytes, so the committed damage rectangle fits in it
C26_PendingClearedOnlyWithMatchingBuffer ==
    [][(needs_resize /\ ~needs_resize' /\ buffer' # 0) =>
          SizeOf(live_maps', shm_data') = (window_width' * 4) * window_height']_vars

(***************************************************************************)
(* gui.cpp: the way of a stored frame to the screen.  The capture thread   *)
(* delivers frames to onVideoFrame while the main thread, having created   *)
(* the window, runs the event loop.                                        *)
(***************************************************************************)
\* one pass of runEventLoop with the connection alive, gui.cpp:855-918: the
\* loop condition, dispatch, flush and poll, the resize branch, then damage
\* and commit of the buffer that is attached.  No call of createBuffer, no
\* read of the frame slot.
runEventLoop_pass(resize_due) ==
    /\ el_pc = "test"
    /\ runEventLoop_continues(exit_requested, bound.display)
    /\ needs_resize' =
          IF needs_resize /\ surface_set /\ resize_due
             /\ configure_valid(window_width, window_height)
          THEN FALSE ELSE needs_resize
    /\ UNCHANGED <<exit_requested, el_pc, el_cause, el_iters, window_width, window_height>>
    /\ LoopUnchanged

NextVideo ==
    \/ main_initialize
    \/ main_createWindow
    \/ runEventLoop_call
    \/ \E resize_due \in BOOLEAN : runEventLoop_pass(resize_due)
    \/ onVideoFrame_call
    \/ onVideoFrame_enter
    \/ onVideoFrame_resize
    \/ onVideoFrame_memcpy
    \/ onVideoFrame_width
    \/ onVideoFrame_height
    \/ onVideoFrame_return

\* the main thread keeps passing through the loop and a capture thread that
\* has entered onVideoFrame runs it to its end; nothing obliges the capture
\* device to deliver another frame
SpecVideo ==
    /\ InitLoop
    /\ [][NextVideo]_vars
    /\ WF_vars(\E resize_due \in BOOLEAN : runEventLoop_pass(resize_due))
    /\ WF_vars(onVideoFrame_enter)
    /\ WF_vars(onVideoFrame_resize)
    /\ WF_vars(onVideoFrame_memcpy)
    /\ WF_vars(onVideoFrame_width)
    /\ WF_vars(onVideoFrame_height)
    /\ WF_vars(onVideoFrame_return)

\* C27: a frame that has been stored while the event loop runs is eventually
\* rendered and committed (the new-frame indication is cleared by the
\* rendering) or superseded by a newer frame in the slot.
C27_StoredFrameRenderedOrSuperseded ==
    \A a \in {f \in Arrivals : onVideoFrame_accepts(f)} :
        (el_pc = "test" /\ writer_pc = "idle" /\ has_new_frame /\ Slot = a)
            ~> (~has_new_frame \/ Slot # a)

(***************************************************************************)
(* The button and key callbacks with what the target is left holding.      *)
(* The target holds a button from a sendMouseButton press until the next   *)
(* sendMouseButton release (a report with button mask 0), and a key from a *)
(* sendKeyPress until the next sendKeyRelease (an all-zero report).        *)
(***************************************************************************)
\* what the target holds once the call of this callback has been written
HeldAfter(h, call) ==
    CASE call.fn = "sendMouseButton" -> [h EXCEPT !.button = (call.b = 1)]
      [] call.fn = "sendKeyPress" -> [h EXCEPT !.key = TRUE]
      [] call.fn = "sendKeyRelease" -> [h EXCEPT !.key = FALSE]
      [] OTHER -> h

debug_pointer_button_held ==
    \E button \in Buttons, pressed \in BOOLEAN :
       /\ pointer_button(button, pressed)
       /\ held' = HeldAfter(held, serial_call')
       /\ UNCHANGED <<last_event, keys_down, keyVars>>

debug_keyboard_key_held ==
    \E key \in Keys, pressed \in BOOLEAN :
       /\ keyboard_key(key, pressed)
       /\ held' = HeldAfter(held, serial_call')
       /\ UNCHANGED <<last_event, keys_down, keyVars>>

NextHeld ==
    \/ debug_pointer_enter
    \/ debug_pointer_leave
    \/ debug_keyboard_enter
    \/ debug_keyboard_leave
    \/ debug_pointer_button_held
    \/ debug_keyboard_key_held
    \/ SerialWriteReturns
    \/ SerialConnect
    \/ setForwardingEnabled

SpecHeld == InitProto /\ [][NextHeld]_vars

\* C28: once a pointer-leave has been handled the target holds no button,
\* and once a keyboard-leave has been handled it holds no key: every press
\* forwarded before the leave has been followed by a release or reset.
C28_NothingHeldAfterLeave ==
    proto_pc = "idle" =>
        /\ ~mouse_over => ~held.button
        /\ ~input_active => ~held.key

(***************************************************************************)
(* The pointer-motion callback with the position of the last event kept.   *)
(***************************************************************************)
\* positions on both sides of each border line of the default window
MotionXs == {5, 10, 960, DefaultWidth - 10, DefaultWidth - 5}
MotionYs == {5, 540, DefaultHeight - 10}

debug_pointer_motion_event ==
    \E x \in MotionXs, y \in MotionYs :
       /\ pointer_motion(x, y)
       /\ last_event' = [kind |-> "motion", a |-> x, b |-> y,
                         tick |-> 1 - last_event.tick]
       /\ UNCHANGED <<held, keys_down, keyVars>>

NextMotion ==
    \/ debug_pointer_enter
    \/ debug_pointer_leave
    \/ debug_keyboard_enter
    \/ debug_keyboard_leave
    \/ debug_pointer_motion_event

SpecMotion == InitProto /\ [][NextMotion]_vars

\* C30: after every motion event delivered while the pointer is over the
\* surface the stored edge mask is the one of that event's position with a
\* 10-pixel border: left iff x < 10, right iff x >= width - 10, top iff
\* y < 10, bottom iff y >= height - 10.
C30_MaskIsThatOfTheLastMotion ==
    [][(last_event' # last_event /\ last_event'.kind = "motion" /\ mouse_over) =>
          LET x == last_event'.a
              y == last_event'.b
          IN resize_edge' = (IF x < 10 THEN 1 ELSE 0)
                            + (IF x >= window_width - 10 THEN 2 ELSE 0)
                            + (IF y < 10 THEN 4 ELSE 0)
                            + (IF y >= window_height - 10 THEN 8 ELSE 0)]_vars

(***************************************************************************)
(* ThreadManager::stopX against a running worker function.  A worker       *)
(* function loops while its flag is set; between two tests of the flag it  *)
(* waits with a bound: the render worker on render_cv with a timeout, the  *)
(* input worker between two ticks, the wayland worker in poll.  wk_signal  *)
(* keeps what the notify_all of the last stopX did to the worker:          *)
(* "delivered" to a worker that was waiting, "lost" on one that had tested *)
(* its flag and had not yet begun to wait.                                 *)
(***************************************************************************)
\* how many times each worker is started and stopped here
MaxRuns == 1

\* the workers stopX notifies: render_cv and input_cv
CvWorkers == {"render", "input"}

\* the loop condition of a worker function
worker_continues(running) == running

WorkerUnchanged ==
    /\ UNCHANGED <<tm_running, tm_thread, tm_started, tm_live, tm_pc, tm_last, tm_joins,
                   tm_destroyed>>
    /\ TmQuiet

\* the thread startX created enters the worker function
worker_begin(w) ==
    /\ tm_thread[w] # NoThread /\ ~tm_done[w]
    /\ wk_pc[w] \in {"none", "exited"}
    /\ wk_pc' = [wk_pc EXCEPT ![w] = "test"]
    /\ wk_signal' = [wk_signal EXCEPT ![w] = "none"]
    /\ UNCHANGED tm_done
    /\ WorkerUnchanged

\* it reads its flag: on to the wait, or out of the function
worker_test(w) ==
    /\ wk_pc[w] = "test"
    /\ IF worker_continues(tm_running[w])
       THEN /\ wk_pc' = [wk_pc EXCEPT ![w] = "block"]
            /\ UNCHANGED tm_done
       ELSE /\ wk_pc' = [wk_pc EXCEPT ![w] = "exited"]
            /\ tm_done' = [tm_done EXCEPT ![w] = TRUE]
    /\ UNCHANGED wk_signal
    /\ WorkerUnchanged

\* it begins its bounded wait
worker_block(w) ==
    /\ wk_pc[w] = "block"
    /\ wk_pc' = [wk_pc EXCEPT ![w] = "wait"]
    /\ UNCHANGED <<wk_signal, tm_done>>
    /\ WorkerUnchanged

\* the wait ends because the condition variable was notified
worker_wake_notified(w) ==
    /\ wk_pc[w] = "wait" /\ wk_signal[w] = "delivered"
    /\ wk_pc' = [wk_pc EXCEPT ![w] = "test"]
    /\ UNCHANGED <<wk_signal, tm_done>>
    /\ WorkerUnchanged

\* the wait ends because its time is up
worker_wake_timeout(w) ==
    /\ wk_pc[w] = "wait"
    /\ wk_pc' = [wk_pc EXCEPT ![w] = "test"]
    /\ UNCHANGED <<wk_signal, tm_done>>
    /\ WorkerUnchanged

\* stopX up to its join, with what its notify_all meets
stopX_call_notify(w) ==
    /\ stopX_enter(w)
    /\ wk_signal' =
          IF tm_running[w] /\ w \in CvWorkers
          THEN [wk_signal EXCEPT ![w] = CASE wk_pc[w] = "wait" -> "delivered"
                                          [] wk_pc[w] = "block" -> "lost"
                                          [] OTHER -> @]
          ELSE wk_signal
    /\ UNCHANGED wk_pc

NextStop ==
    \/ \E w \in Workers : tm_started[w] < MaxRuns /\ startX(w)
    \/ \E w \in Workers : worker_begin(w)
    \/ \E w \in Workers : worker_test(w)
    \/ \E w \in Workers : worker_block(w)
    \/ \E w \in Workers : worker_wake_notified(w)
    \/ \E w \in Workers : worker_wake_timeout(w)
    \/ \E w \in Workers : stopX_call_notify(w)
    \/ \E w \in Workers : stopX_return(w)

\* every thread that can take a step is scheduled again, a bounded wait
\* ends, and join returns once the joined thread has ended
SpecStop ==
    /\ InitThreads
    /\ [][NextStop]_vars
    /\ \A w \in Workers :
          /\ WF_vars(worker_begin(w))
          /\ WF_vars(worker_test(w))
          /\ WF_vars(worker_block(w))
          /\ WF_vars(worker_wake_timeout(w))
          /\ WF_vars(stopX_return(w))

C31_DestroyBufferLeavesNothing ==
    [][(window_created /\ ~window_created') =>
          (buffer' = 0 /\ shm_data' = 0 /\ shm_fd' = -1)]_vars

(***************************************************************************)
(* The close request of the server, dispatched by the running event loop.  *)
(***************************************************************************)
\* xdg_toplevel_close of gui.cpp and gui_wayland.cpp: a log line.  The event
\* is kept in last_event.
xdg_toplevel_close ==
    /\ el_pc = "test"
    /\ window_created /\ xdg_toplevel_set
    /\ last_event' = [kind |-> "close", a |-> 0, b |-> 0, tick |-> 1 - last_event.tick]
    /\ UNCHANGED <<protoVars, winVars, decodeVars, frameVars, bufVars, raceVars,
                   globalVars, normVars, renderVars, gpuVars, tmVars, elVars, keyVars,
                   wkVars, cnVars, dispVars, srvVars, held, keys_down>>

\* the loop condition fails and runEventLoop returns
runEventLoop_leave ==
    /\ ~runEventLoop_continues(exit_requested, bound.display)
    /\ runEventLoop_test

NextClose ==
    \/ main_initialize
    \/ main_createWindow
    \/ runEventLoop_call
    \/ \E resize_due \in BOOLEAN : runEventLoop_pass(resize_due)
    \/ runEventLoop_leave
    \/ requestExit
    \/ xdg_toplevel_close

\* the thread in runEventLoop keeps running
SpecClose ==
    /\ InitLoop
    /\ [][NextClose]_vars
    /\ WF_vars(\E resize_due \in BOOLEAN : runEventLoop_pass(resize_due))
    /\ WF_vars(runEventLoop_leave)

\* C32: once the server has sent a close request to the window, runEventLoop
\* eventually returns, with no call of requestExit needed.
C32_CloseEndsTheLoop ==
    (last_event.kind = "close") ~> (el_pc = "returned")

(***************************************************************************)
(* The key callback with the keys held on both sides.  The target holds    *)
(* the keys the last keyboard report names in its six key bytes.           *)
(***************************************************************************)
\* two mapped keys that are no modifiers: KEY_A and KEY_S
ChordKeys == {30, 31}

\* the keys a CH9329 keyboard frame reports as down: bytes 7 to 12 of the
\* frame, counted from 0
ReportKeys(bytes) == {bytes[i] : i \in 8..13} \ {0}

debug_keyboard_key_chord ==
    \E key \in ChordKeys, pressed \in BOOLEAN :
       /\ keyboard_key(key, pressed)
       /\ keys_down' =
             IF serial_call'.fn \in {"sendKeyPress", "sendKeyRelease"}
             THEN [local |-> IF pressed
                             THEN keys_down.local \cup {linux_keycode_to_hid(key)}
                             ELSE keys_down.local \ {linux_keycode_to_hid(key)},
                   target |-> ReportKeys(wire')]
             ELSE keys_down
       /\ UNCHANGED <<last_event, held, keyVars>>

NextChord ==
    \/ debug_keyboard_enter
    \/ debug_keyboard_leave
    \/ debug_keyboard_modifiers
    \/ debug_keyboard_key_chord
    \/ SerialWriteReturns
    \/ SerialConnect
    \/ setForwardingEnabled

SpecChord == InitProto /\ [][NextChord]_vars

\* C33: after any sequence of forwarded presses and releases of mapped
\* non-modifier keys, the keys held on the target, as the reports written
\* imply, are the keys held locally.
C33_TargetHoldsWhatIsHeldLocally ==
    keys_down.target = keys_down.local

\* C34: the left-button release that ends an interactive resize drag is
\* consumed by the resize state machine: the callback that clears is_resizing
\* forwards no button event, so the target gets no release for the press
\* that started the drag and was not forwarded.
C34_DragReleaseNotForwarded ==
    [][(is_resizing /\ ~is_resizing') => serial_call'.fn # "sendMouseButton"]_vars

(***************************************************************************)
(* The pointer callbacks with the position the server reported last.       *)
(***************************************************************************)
\* two positions inside the window, away from its border
CoordXs == {400, 960}
CoordYs == {300, 540}

debug_pointer_enter_at ==
    \E x \in CoordXs, y \in CoordYs :
       /\ pointer_enter(x, y)
       /\ last_event' = [kind |-> "enter", a |-> x, b |-> y, tick |-> 1 - last_event.tick]
       /\ UNCHANGED <<held, keys_down, keyVars>>

debug_pointer_motion_at ==
    \E x \in CoordXs, y \in CoordYs :
       /\ pointer_motion(x, y)
       /\ last_event' = [kind |-> "motion", a |-> x, b |-> y, tick |-> 1 - last_event.tick]
       /\ UNCHANGED <<held, keys_down, keyVars>>

NextCoords ==
    \/ debug_pointer_enter_at
    \/ debug_pointer_leave
    \/ debug_pointer_motion_at
    \/ debug_keyboard_enter
    \/ debug_keyboard_leave
    \/ debug_pointer_button
    \/ SerialWriteReturns
    \/ SerialConnect

SpecCoords == InitProto /\ [][NextCoords]_vars

\* C35: the coordinates sent with a forwarded button event are the mapping
\* of the pointer position the server reported last, by an enter or a motion
\* event, whether or not the window had keyboard focus when it arrived.
C35_ButtonAtLastReportedPosition ==
    [][(proto_pc = "idle" /\ serial_call'.fn = "sendMouseButton") =>
          <<serial_call'.c, serial_call'.d>> =
              normalizeMouseCoordinates(last_event.a, last_event.b, window_width,
                                        window_height, window_width, window_height)]_vars

(***************************************************************************)
(* serial.cpp: the connection thread of Serial::connectAsync beside the    *)
(* thread that dispatches the input callbacks.  cn_pc is the place of the  *)
(* connection thread in connectAtBaudRate, cn_fd the descriptor (-1 none). *)
(***************************************************************************)
\* the descriptor open() returns
PortFd == 3

\* what the chip answers to CMD_GET_PARA_CFG, and how the write and the reset go
ParaOutcomes == {"ok", "write failed", "no response", "reset failed"}

ConnectUnchanged ==
    UNCHANGED <<inputVars, forwarding_enabled, threadVars, callVars, winVars, decodeVars,
                frameVars, bufVars, raceVars, globalVars, normVars, renderVars, gpuVars,
                tmVars, elVars, keyVars, evVars, wkVars, dispVars, srvVars>>

\* connectAsync starts the thread; connectAtBaudRate opens the port
connectAtBaudRate_open(opened) ==
    /\ cn_pc = "idle" /\ ~connected
    /\ cn_fd' = IF opened THEN PortFd ELSE -1
    /\ cn_pc' = IF opened THEN "opened" ELSE "idle"
    /\ UNCHANGED connected
    /\ ConnectUnchanged

\* tcsetattr; on success connected = true, before the chip is spoken to
connectAtBaudRate_configure(configured) ==
    /\ cn_pc = "opened"
    /\ IF configured
       THEN /\ connected' = TRUE
            /\ cn_pc' = "get_para"
            /\ UNCHANGED cn_fd
       ELSE /\ cn_fd' = -1
            /\ cn_pc' = "idle"
            /\ UNCHANGED connected
    /\ ConnectUnchanged

\* CMD_GET_PARA_CFG is written, the answer read, the chip reset if needed
connectAtBaudRate_get_para(outcome) ==
    /\ cn_pc = "get_para"
    /\ IF outcome = "ok"
       THEN /\ cn_pc' = "get_info"
            /\ UNCHANGED <<connected, cn_fd>>
       ELSE /\ cn_fd' = -1
            /\ connected' = FALSE
            /\ cn_pc' = "idle"
    /\ ConnectUnchanged

\* CMD_GET_INFO is written and connectAtBaudRate returns true
connectAtBaudRate_get_info ==
    /\ cn_pc = "get_info"
    /\ cn_pc' = "done"
    /\ UNCHANGED <<connected, cn_fd>>
    /\ ConnectUnchanged

\* Serial::disconnect on an established connection
Serial_disconnect ==
    /\ cn_pc = "done" /\ proto_pc = "idle"
    /\ IF connected
       THEN /\ cn_fd' = -1
            /\ connected' = FALSE
       ELSE UNCHANGED <<connected, cn_fd>>
    /\ cn_pc' = "idle"
    /\ ConnectUnchanged

NextConnect ==
    \/ \E opened \in BOOLEAN : connectAtBaudRate_open(opened)
    \/ \E configured \in BOOLEAN : connectAtBaudRate_configure(configured)
    \/ \E outcome \in ParaOutcomes : connectAtBaudRate_get_para(outcome)
    \/ connectAtBaudRate_get_info
    \/ Serial_disconnect
    \/ debug_keyboard_enter
    \/ debug_keyboard_leave
    \/ debug_keyboard_key
    \/ debug_keyboard_modifiers
    \/ SerialWriteReturns
    \/ setForwardingEnabled

SpecConnect == InitProto /\ [][NextConnect]_vars

\* C36: isConnected() is true only when the port is open and the handshake
\* with the chip has completed; while a connection attempt is in progress no
\* input callback is writing to the port; and when no attempt is in progress
\* and none has succeeded, isConnected() is false and the descriptor closed.
C36_ConnectedOnlyAfterHandshake ==
    /\ connected => (cn_fd # -1 /\ cn_pc = "done")
    /\ proto_pc = "serial_write" => cn_pc = "done"
    /\ cn_pc = "idle" => (~connected /\ cn_fd = -1)

(***************************************************************************)
(* gui.cpp, video.cpp: the video display.  startVideoDisplay registers the *)
(* GUI's frame callback with the video source and starts the capture       *)
(* thread, whose captureLoop calls the callback for every frame it         *)
(* dequeues.                                                               *)
(***************************************************************************)
DisplayUnchanged ==
    UNCHANGED <<protoVars, winVars, decodeVars, frameVars, bufVars, raceVars, extQuiet, srvVars>>

\* GUI::startVideoDisplay with a video source set
startVideoDisplay ==
    /\ \E started \in BOOLEAN :
          IF ~window_created
          THEN UNCHANGED dispVars
          ELSE /\ capturing' = (capturing \/ started)
               /\ video_displayed' = (started \/ video_displayed)
    /\ DisplayUnchanged

\* GUI::stopVideoDisplay
stopVideoDisplay ==
    /\ video_displayed' = FALSE
    /\ UNCHANGED capturing
    /\ DisplayUnchanged

\* Video::Impl::captureLoop has dequeued a buffer and calls frame_callback
captureLoop_frame ==
    /\ capturing
    /\ onVideoFrame_call

NextDisplay ==
    \/ initialize
    \/ createWindow
    \/ destroyWindow
    \/ shutdown
    \/ startVideoDisplay
    \/ stopVideoDisplay
    \/ captureLoop_frame
    \/ onVideoFrame_enter
    \/ onVideoFrame_resize
    \/ onVideoFrame_memcpy
    \/ onVideoFrame_width
    \/ onVideoFrame_height
    \/ onVideoFrame_return

SpecDisplay == InitFrame /\ [][NextDisplay]_vars

\* C37: once stopVideoDisplay, destroyWindow or shutdown has returned, the
\* frame callback changes neither the stored frame nor the new-frame flag
\* nor the pending-resize flag: with the display off, no step of
\* onVideoFrame changes them.
C37_NoFrameStoredWhenDisplayOff ==
    [][(~video_displayed /\ writer_pc' # writer_pc) =>
          UNCHANGED <<slotVars, needs_resize>>]_vars

\* C38: renderFrame issues GL calls only when the shader program, the vertex
\* buffer and the texture exist and the renderer's present context has been
\* claimed by a thread, so that after cleanup and a new initialize it returns
\* false until initializeInCurrentThread has recreated them.
C38_DrawsOnlyWithObjectsOfThisContext ==
    (gpu_ret.op = "renderFrame" /\ gpu_ret.gl)
        => /\ gpu.gl_objects
           /\ gpu.egl_context # NoContext
           /\ \E t \in GpuThreads : current_on[t] = gpu.egl_context

\* C39: a worker's running flag is true only while its thread function is
\* still executing: once the function has returned on its own the flag is
\* false, so that the next startX launches a new worker.
C39_RunningOnlyWhileExecuting ==
    \A w \in Workers : tm_running[w] => (tm_thread[w] # NoThread /\ ~tm_done[w])

(***************************************************************************)
(* The compositor sends a bounded number of resize proposals to a created  *)
(* window and then stops; the steady clock goes on, and the event loop     *)
(* takes up a pending resize.                                              *)
(***************************************************************************)
MaxProposals == 3
SettleSizes == {<<800, 600>>, <<1920, 1080>>, <<4097, 600>>}

\* the compositor sends one proposal; srv_last keeps the last valid one
server_configure ==
    /\ srv_sent < MaxProposals
    /\ \E proposal \in SettleSizes :
          /\ configure_proposal(proposal)
          /\ srv_last' = IF configure_valid(proposal[1], proposal[2])
                         THEN proposal ELSE srv_last
    /\ srv_sent' = srv_sent + 1

\* the window is created once
createWindow_once ==
    /\ ~window_created
    /\ createWindow

NextSettle ==
    \/ initialize
    \/ createWindow_once
    \/ server_configure
    \/ Tick
    \/ runEventLoop_resize

\* the clock advances, the event loop keeps running, and the server sends
\* all the proposals it has before it stops
SpecSettle ==
    /\ InitWindow
    /\ [][NextSettle]_vars
    /\ WF_vars(Tick)
    /\ WF_vars(runEventLoop_resize)
    /\ WF_vars(server_configure)

\* C40: once the server has stopped sending resize proposals, the window's
\* recorded width and height come to equal the last valid proposal it sent:
\* a proposal skipped by the rate limiter is applied later.
C40_LastValidProposalIsApplied ==
    (srv_sent = MaxProposals /\ srv_last # NoSize)
        ~> (window_width = srv_last[1] /\ window_height = srv_last[2])

\* C7: whatever the sequence of createWindow, resize, destroyWindow and
\* shutdown, at most one server buffer, one mapping and one descriptor are
\* live, and once shutdown has returned every buffer created was destroyed
\* and nothing is left mapped or open.
C7_OneBufferNoLeak ==
    /\ Cardinality(live_bufs) <= 1
    /\ Cardinality(live_maps) <= 1
    /\ Cardinality(live_fds) <= 1
    /\ ~initialized =>
          /\ n_created = n_destroyed
          /\ live_bufs = {} /\ live_maps = {} /\ live_fds = {}

\* C8: every munmap of destroyBuffer passes the number of bytes that were
\* mapped at that address, also when the window size has changed since.
C8_UnmapsWhatWasMapped ==
    last_unmap.len = last_unmap.mapped

\* C9: while a thread is tearing the buffer down (server buffer destroyed,
\* mapping removed, descriptor closed, all under resize_mutex), no other
\* thread is between its test of the buffer and its damage and commit of
\* the surface that carries it.
C9_TeardownExcludesBufferUse ==
    resize_mutex = "api" => loop_pc \notin {"wl_surface_damage", "wl_surface_commit"}

\* C10: a resize proposal is turned down, leaving size and pending flag as
\* they were, exactly if a dimension is <= 0 or > 8192; one with both
\* dimensions in 1..8192 that differs from the current size and is not
\* rate limited sets the size and marks a resize pending.
C10_ProposalLimit8192 ==
    cfg # NoProposal =>
        LET out == cfg.width <= 0 \/ cfg.height <= 0
                   \/ cfg.width > 8192 \/ cfg.height > 8192
            differs == cfg.width # cfg.old_width \/ cfg.height # cfg.old_height
        IN /\ (cfg.log = "invalid") <=> out
           /\ out => /\ window_width = cfg.old_width
                     /\ window_height = cfg.old_height
                     /\ needs_resize = cfg.old_needs
           /\ (~out /\ differs /\ cfg.elapsed > RateLimitMs) =>
                  /\ window_width = cfg.width
                  /\ window_height = cfg.height
                  /\ needs_resize

====
